---- MODULE Spec2Model ----
(***************************************************************************)
(* A model of the city-repair web application: the proximity search of    *)
(* lib/supabase-location.ts, the location acquisition of the library and   *)
(* of the Reports Around Me page, and the report submission flow of the    *)
(* report-incident page.                                                   *)
(*                                                                         *)
(* Units.  Coordinates are integers in hundredths of a degree.  Angles    *)
(* are integers in microradians and trigonometric values are integers in  *)
(* millionths, so that every intermediate product fits in 32 bits.        *)
(* Radii are in kilometres as in the source; distances are in metres.     *)
(***************************************************************************)
EXTENDS Integers, Sequences, FiniteSets, TLC

(***************************************************************************)
(* Bounds of the model.                                                    *)
(***************************************************************************)
MaxReports == 2      \* rows in the reports table
GridStep == 4        \* spacing of the report positions, hundredths of a degree

Null == <<>>         \* SQL NULL / JavaScript null or undefined
Some(v) == <<v>>     \* a present value of a nullable column

Min(a, b) == IF a <= b THEN a ELSE b
Abs(x) == IF x < 0 THEN -x ELSE x

(***************************************************************************)
(* Fixed-point arithmetic standing for the double-precision Math library. *)
(***************************************************************************)
Pi == 31416          \* Math.PI in units of 1e-4
EarthRadius == 6371  \* R, kilometres
KmPerDegree == 111   \* the divisor of radiusKm / 111

\* x * Math.PI / 180 for x in hundredths of a degree; the result in microradians.
Rad(x) == (x * Pi) \div 180

\* Math.sin for |x| <= 46340 microradians (the half-differences of nearby
\* points): x - x^3/6, in millionths.
Sin(x) ==
  LET ax == Abs(x)
      x2 == (ax * ax) \div 1000000
      x3 == (x2 * ax) \div 1000000
      s  == ax - (x3 \div 6)
  IN IF x < 0 THEN -s ELSE s

\* Math.cos for |x| <= about 1.15 rad (latitudes up to 65 degrees):
\* 1 - y^2/2 + y^4/24 - y^6/720 evaluated in units of 1e-4, in millionths.
Cos(x) ==
  LET y  == Abs(x) \div 100
      y2 == (y * y) \div 10000
      y4 == (y2 * y2) \div 10000
      y6 == (y4 * y2) \div 10000
  IN (10000 - (y2 \div 2) + (y4 \div 24) - (y6 \div 720)) * 100

RECURSIVE SqrtIter(_, _, _)
SqrtIter(n, lo, hi) ==
  IF lo >= hi THEN lo
  ELSE LET mid == (lo + hi + 1) \div 2
       IN IF mid * mid <= n THEN SqrtIter(n, mid, hi)
                            ELSE SqrtIter(n, lo, mid - 1)

\* Math.sqrt on integers: the floor of the square root of n.
Sqrt(n) == SqrtIter(n, 0, 46340)

\* Math.atan2(y, x) for 0 <= y <= 46340 and x > 0 in millionths:
\* t - t^3/3 with t = y/x, in microradians.
Atan2(y, x) ==
  LET t  == (y * 1000) \div (x \div 1000)
      t2 == (t * t) \div 1000000
      t3 == (t2 * t) \div 1000000
  IN t - (t3 \div 3)

\* The Haversine distance.  a is in units of 1e-12, c in microradians and
\* the result R * c in metres.
calculateDistance(lat1, lon1, lat2, lon2) ==
  LET dLat == Rad(lat2 - lat1)
      dLon == Rad(lon2 - lon1)
      sLat == Sin(dLat \div 2)
      sLon == Sin(dLon \div 2)
      cc   == (Cos(Rad(lat1)) \div 1000) * (Cos(Rad(lat2)) \div 1000)
      a    == sLat * sLat + (((cc \div 1000) * sLon) \div 1000) * sLon
      c    == 2 * Atan2(Sqrt(a), Sqrt(1000000 - (a \div 1000000)) * 1000)
  IN (EarthRadius * c) \div 1000

\* JavaScript Number(v) of a nullable numeric column: Number(null) is 0.
Number(v) == IF v = Null THEN 0 ELSE v[1]

(***************************************************************************)
(* The state.                                                              *)
(***************************************************************************)
VARIABLES
  city,          \* latitude of the city the user and the reports are in
  dbReports,     \* the rows of the reports table
  nearArgs,      \* the arguments userLocation, radiusKm, status, limit
  call,          \* the library function that was called, "none" before
  nearData,      \* the rows the bounding-box query returned (data)
  nearResult,    \* what fetchReportsNearLocation returned
  nearest,       \* what getNearestReport returned: <<report>> or Null
  aroundReports, \* Reports Around Me: the displayed list (reports)
  aroundLoading, \* Reports Around Me: loading
  aroundError,   \* Reports Around Me: error, Null or a message
  boxResult,     \* what fetchReportsInBoundingBox returned
  repeatResult   \* what a second, identical call of fetchReportsNearLocation returned

searchVars == <<city, dbReports, nearArgs, call, nearData, nearResult, nearest,
                aroundReports, aroundLoading, aroundError, boxResult, repeatResult>>

\* The location acquirer: one invocation of getCurrentLocationWithGoogleMaps
VARIABLES
  locImpl,          \* "lib" (lib/supabase-location.ts) or "page" (Reports Around Me)
  googleApiKey,     \* whether a Google Maps API key is configured
  fallbackToBrowser,\* the fallbackToBrowser argument of the library function
  locPc,            \* the await the invocation is suspended at, or "done"
  browserLocation,  \* the local browserLocation, Null before
  geolocationData,  \* the local geolocationData.location, Null before
  response,         \* the response whose json() is awaited, Null otherwise
  locOutcome,       \* Null, or the UserLocation returned, or the Error thrown
  deviceAttempts,   \* calls of navigator.geolocation.getCurrentPosition
  networkRequests,  \* requests to the geolocation endpoint
  geocodeRequests,  \* requests to the geocoding endpoint
  obtained,         \* the coordinates obtained so far, in order, with their source
  locFailures       \* the failures met so far: "device", "network", "geocode"

locVars == <<locImpl, googleApiKey, fallbackToBrowser, locPc, browserLocation,
             geolocationData, response, locOutcome, deviceAttempts, networkRequests,
             geocodeRequests, obtained, locFailures>>

\* The Report Incident page: the session and profile load, the auth state listener,
\* the report form and its submission

VARIABLES
  route,            \* the page the router shows: the component is mounted on "/report-incident"
  session,          \* the auth service's current session: Null or Some(user id)
  authEvents,       \* auth state changes not yet delivered to the listener
  authEventCount,   \* number of auth state changes so far
  loads,            \* invocations of loadUserAndProfile that are awaiting a response
  loadCount,        \* number of invocations of loadUserAndProfile so far
  user,             \* useState user
  userProfile,      \* useState userProfile
  isLoading,        \* useState isLoading
  profileError      \* useState profileError

authVars == <<route, session, authEvents, authEventCount, loads, loadCount, user,
              userProfile, isLoading, profileError>>

VARIABLES
  selectedLocation, \* useState selectedLocation
  showForm,         \* useState showForm
  formData,         \* useState formData
  photoPreviews     \* useState photoPreviews

formVars == <<selectedLocation, showForm, formData, photoPreviews>>

VARIABLES
  isSubmitting,     \* useState isSubmitting
  clock,            \* what Date.now() returns: a submission ends after the clock has advanced
  submission,       \* the invocation of handleFormSubmit that is awaiting a response, with its closure
  submitCount,      \* number of submissions started so far
  steps,            \* number of user actions so far
  uploads,          \* upload requests the storage service has not answered yet
  storage,          \* keys of the objects in the bucket report-images
  insertedReports   \* rows this page inserted into the reports table

submitVars == <<isSubmitting, clock, submission, submitCount, steps, uploads, storage,
                insertedReports>>

\* submitVars without the count of user actions, which the specifications keep
requestVars == <<isSubmitting, clock, submission, submitCount, uploads, storage,
                 insertedReports>>

pageVars == <<authVars, formVars, submitVars>>

\* The My Reports page, in its two versions
VARIABLES
  myImpl,           \* "validated" (the version with loadProfileAndValidateSession) or "app" (app/my-reports/page.tsx)
  storedProfile,    \* the sessionStorage item 'userProfile'
  mySession,        \* the auth service's current session, as the page sees it
  myPc,             \* where the mount-time load is
  myReports,        \* useState reports
  myLoading,        \* useState loading
  myError,          \* useState error
  myProfile,        \* useState sessionProfile / userProfile
  validatedUser,    \* the user id of the session getSession returned to this load
  reportQueries,    \* the report queries issued, with the session validated before each
  myRedirect,       \* the redirect scheduled with setTimeout, not yet due
  myRoute           \* the page the router shows

myVars == <<myImpl, storedProfile, mySession, myPc, myReports, myLoading, myError,
            myProfile, validatedUser, reportQueries, myRedirect, myRoute>>

\* the My Reports page not opened, for the specifications of the other components
MyIdle ==
  /\ myImpl = "validated"
  /\ storedProfile = Null
  /\ mySession = Null
  /\ myPc = "mount"
  /\ myReports = <<>>
  /\ myLoading = TRUE
  /\ myError = Null
  /\ myProfile = Null
  /\ validatedUser = Null
  /\ reportQueries = <<>>
  /\ myRedirect = Null
  /\ myRoute = "/"

\* The home page (HomePage): session check, profile fetch, questionnaire or dashboard
VARIABLES
  homeSession,      \* the auth service's current session
  homeEvents,       \* auth state changes not yet delivered to the home page's listener
  homeEventCount,   \* number of auth state changes so far
  sessionCheck,     \* whether the mount-time getSession() is still pending
  profileFetches,   \* invocations of fetchProfile that are awaiting the profiles query
  profileFetchCount,\* number of invocations of fetchProfile so far
  homeUser,         \* useState user
  homeProfile,      \* useState profile
  homeLoading,      \* useState loading
  homeRedirecting,  \* useState redirecting
  homeRoute         \* the page the router shows: HomePage is mounted on "/"

homeVars == <<homeSession, homeEvents, homeEventCount, sessionCheck, profileFetches,
              profileFetchCount, homeUser, homeProfile, homeLoading, homeRedirecting,
              homeRoute>>

\* the home page not opened, for the specifications of the other components
HomeIdle ==
  /\ homeSession = Null
  /\ homeEvents = <<>>
  /\ homeEventCount = 0
  /\ sessionCheck = FALSE
  /\ profileFetches = {}
  /\ profileFetchCount = 0
  /\ homeUser = Null
  /\ homeProfile = Null
  /\ homeLoading = TRUE
  /\ homeRedirecting = FALSE
  /\ homeRoute = "/login"

\* The Reports Around Me page (ReportsAroundMe): location acquisitions and report
\* queries in flight, and the page's state
VARIABLES
  raUserLocation,    \* useState userLocation
  raReports,         \* useState reports
  raLoading,         \* useState loading
  raLocationLoading, \* useState locationLoading
  raError,           \* useState error
  raRadius,          \* useState radius
  raLocating,        \* invocations of initializeLocation awaiting the location
  raFetches,         \* invocations of fetchNearbyReports awaiting the query
  raStarted,         \* number of invocations of initializeLocation and fetchNearbyReports so far
  raClicks,          \* number of button clicks so far
  raRequests,        \* number of network requests issued so far
  raLast             \* the completion that happened last, Null before the first

raVars == <<raUserLocation, raReports, raLoading, raLocationLoading, raError, raRadius,
            raLocating, raFetches, raStarted, raClicks, raRequests, raLast>>

\* the Reports Around Me page not opened, for the specifications of the other components
AroundIdle ==
  /\ raUserLocation = Null
  /\ raReports = <<>>
  /\ raLoading = TRUE
  /\ raLocationLoading = FALSE
  /\ raError = Null
  /\ raRadius = 5
  /\ raLocating = {}
  /\ raFetches = {}
  /\ raStarted = 0
  /\ raClicks = 0
  /\ raRequests = 0
  /\ raLast = Null

\* The Latest Reports page (LatestReportsPage)
VARIABLES
  ltStore,     \* the rows of the reports table
  ltReports,   \* useState reports
  ltLoading,   \* useState loading
  ltError,     \* useState error
  ltIsLoaded,  \* useState isLoaded
  ltPending,   \* number of invocations of fetchLatestReports awaiting the query
  ltClicks     \* number of clicks on Try Again and Refresh Reports so far

latestVars == <<ltStore, ltReports, ltLoading, ltError, ltIsLoaded, ltPending, ltClicks>>

\* the Latest Reports page not opened, for the specifications of the other components
LatestIdle ==
  /\ ltStore = {}
  /\ ltReports = <<>>
  /\ ltLoading = TRUE
  /\ ltError = Null
  /\ ltIsLoaded = FALSE
  /\ ltPending = 0
  /\ ltClicks = 0

\* formatDistance: one distance and what each of the two copies returned for it
VARIABLES
  fmtDistance,  \* the argument, in ten-thousandths of a kilometre
  fmtLib,       \* what formatDistance of the library returned, Null before the call
  fmtPage       \* what formatDistance of the Reports Around Me page returned, Null before the call

fmtVars == <<fmtDistance, fmtLib, fmtPage>>

\* formatDistance not called, for the specifications of the other components
FormatIdle ==
  /\ fmtDistance = 0
  /\ fmtLib = Null
  /\ fmtPage = Null

\* The Locate Specific Report page (LocateSpecificReport): the text search
VARIABLES
  lsStore,         \* the rows of the reports table
  lsSearchAddress, \* useState searchAddress
  lsReports,       \* useState reports
  lsIsSearching,   \* useState isSearching
  lsHasSearched,   \* useState hasSearched
  lsPending,       \* the term of the query handleSearch awaits, Null when none
  lsQueries        \* number of queries issued so far

locateVars == <<lsStore, lsSearchAddress, lsReports, lsIsSearching, lsHasSearched,
                lsPending, lsQueries>>

\* the Locate Specific Report page not opened, for the specifications of the other components
LocateIdle ==
  /\ lsStore = {}
  /\ lsSearchAddress = <<>>
  /\ lsReports = <<>>
  /\ lsIsSearching = FALSE
  /\ lsHasSearched = FALSE
  /\ lsPending = Null
  /\ lsQueries = 0

\* The Citizen dashboard (CitizenDashboard of components/citizen-dashboard.tsx)
VARIABLES
  cdProp,         \* the profile prop (propProfile), Null when none was passed
  cdSession,      \* the auth service's current session: Null or <<user id>>
  cdRow,          \* the row of the profiles table whose id is the session user's, Null when none
  cdRuns,         \* the runs of fetchProfileFromSession, one per run of the effect: its
                  \* propProfile, where it is ("getSession", "profile", "done") and how it ended
  cdProfile,      \* useState profile
  cdLoading,      \* useState loading
  cdError,        \* useState error
  cdErrorFrom,    \* the function that set error last: "none", "load" or "save"
  cdDataSource,   \* useState dataSource
  cdIsEditing,    \* useState isEditing
  cdEditForm,     \* useState editForm
  cdIsUpdating,   \* useState isUpdating
  cdSave,         \* the invocation of saveChanges that is awaiting, Null when none
  cdSaveCalls,    \* number of invocations of saveChanges so far
  cdLookups,      \* number of session lookups saveChanges has issued
  cdUpdates,      \* number of profile updates saveChanges has sent to the database
  cdTimer,        \* whether setTimeout(() => setError(null), 5000) is pending
  cdSteps         \* number of user actions so far

cdVars == <<cdProp, cdSession, cdRow, cdRuns, cdProfile, cdLoading, cdError,
            cdErrorFrom, cdDataSource, cdIsEditing, cdEditForm, cdIsUpdating, cdSave,
            cdSaveCalls, cdLookups, cdUpdates, cdTimer, cdSteps>>

\* the Citizen dashboard not shown, for the specifications of the other components
DashIdle ==
  /\ cdProp = Null
  /\ cdSession = Null
  /\ cdRow = Null
  /\ cdRuns = <<>>
  /\ cdProfile = Null
  /\ cdLoading = TRUE
  /\ cdError = Null
  /\ cdErrorFrom = "none"
  /\ cdDataSource = "loading"
  /\ cdIsEditing = FALSE
  /\ cdEditForm = [name |-> "", age |-> <<>>, gender |-> "", profession |-> ""]
  /\ cdIsUpdating = FALSE
  /\ cdSave = Null
  /\ cdSaveCalls = 0
  /\ cdLookups = 0
  /\ cdUpdates = 0
  /\ cdTimer = FALSE
  /\ cdSteps = 0

\* The map of the incident page (LocationSelector)
VARIABLES
  mapState,         \* initMap: "loading", then "ready" (listener added) or "failed"
  selectedMarker,   \* position of the red marker (let selectedMarker), Null when none
  selectorLocation, \* useState selectedLocation of LocationSelector
  geocoding,        \* the reverse-geocoding requests awaiting their callback
  mapClicks         \* number of clicks on the map so far

selectorVars == <<mapState, selectedMarker, selectorLocation, geocoding, mapClicks>>

\* the selector as mounted, before its map has loaded
SelectorIdle ==
  /\ mapState = "loading"
  /\ selectedMarker = Null
  /\ selectorLocation = Null
  /\ geocoding = {}
  /\ mapClicks = 0

nonSearchVars == <<locVars, pageVars, myVars, homeVars, raVars, latestVars, fmtVars,
                   locateVars, cdVars, selectorVars>>
nonLocVars == <<searchVars, pageVars, myVars, homeVars, raVars, latestVars, fmtVars,
                locateVars, cdVars, selectorVars>>
nonPageVars == <<searchVars, locVars, myVars, homeVars, raVars, latestVars, fmtVars,
                 locateVars, cdVars, selectorVars>>
nonMyVars == <<searchVars, locVars, pageVars, homeVars, raVars, latestVars, fmtVars,
               locateVars, cdVars, selectorVars>>
nonHomeVars == <<searchVars, locVars, pageVars, myVars, raVars, latestVars, fmtVars,
                 locateVars, cdVars, selectorVars>>
nonAroundVars == <<searchVars, locVars, pageVars, myVars, homeVars, latestVars, fmtVars,
                   locateVars, cdVars, selectorVars>>
nonLatestVars == <<searchVars, locVars, pageVars, myVars, homeVars, raVars, fmtVars,
                   locateVars, cdVars, selectorVars>>
nonFormatVars == <<searchVars, locVars, pageVars, myVars, homeVars, raVars, latestVars,
                   locateVars, cdVars, selectorVars>>
nonLocateVars == <<searchVars, locVars, pageVars, myVars, homeVars, raVars, latestVars,
                   fmtVars, cdVars, selectorVars>>
nonDashVars == <<searchVars, locVars, pageVars, myVars, homeVars, raVars, latestVars, fmtVars,
                 locateVars, selectorVars>>
nonSelectorVars == <<searchVars, locVars, pageVars, myVars, homeVars, raVars, latestVars,
                     fmtVars, locateVars, cdVars>>

vars == <<searchVars, locVars, pageVars, myVars, homeVars, raVars, latestVars, fmtVars,
          locateVars, cdVars, selectorVars>>

\* the location acquirer not invoked, for the specifications of the other components
LocIdle ==
  /\ locImpl = "lib"
  /\ googleApiKey = TRUE
  /\ fallbackToBrowser = TRUE
  /\ locPc = "start"
  /\ browserLocation = Null
  /\ geolocationData = Null
  /\ response = Null
  /\ locOutcome = Null
  /\ deviceAttempts = 0
  /\ networkRequests = 0
  /\ geocodeRequests = 0
  /\ obtained = <<>>
  /\ locFailures = {}

\* the Report Incident page not opened, for the specifications of the other components
PageIdle ==
  /\ route = "/"
  /\ session = Null
  /\ authEvents = <<>>
  /\ authEventCount = 0
  /\ loads = {}
  /\ loadCount = 0
  /\ user = Null
  /\ userProfile = Null
  /\ isLoading = TRUE
  /\ profileError = Null
  /\ selectedLocation = Null
  /\ showForm = FALSE
  /\ formData = [location |-> <<>>, description |-> "", photos |-> <<>>]
  /\ photoPreviews = <<>>
  /\ isSubmitting = FALSE
  /\ clock = 0
  /\ submission = Null
  /\ submitCount = 0
  /\ steps = 0
  /\ uploads = {}
  /\ storage = {}
  /\ insertedReports = {}

(***************************************************************************)
(* The reports table and the inputs of the proximity search.              *)
(***************************************************************************)
StatusValues == {"pending", "in_progress", "resolved", "closed"}

\* Latitudes of the cities the stored reports and the user are in: the
\* equator and 60 degrees north.
BaseLats == {0, 6000}
CreatedAtValues == {1, 2}
StoreStatuses == {"pending", "resolved"}
RadiusValues == {2, 5, 10, 15}
\* the status argument ("" is undefined) and the limit argument (0 is undefined)
StatusArgs == {"", "pending"}
LimitArgs == {0, 1}

\* offsets <<north, east>> of the stored reports from the city centre
PosOffsets == {<<0, 0>>, <<0, GridStep>>, <<0, 2 * GridStep>>,
               <<GridStep, 0>>, <<GridStep, GridStep>>}

CoordValues(base) ==
  {<<Some(base + o[1]), Some(o[2])>> : o \in PosOffsets}
    \cup {<<Null, Some(0)>>, <<Null, Null>>}

\* a row of the reports table; the id is unique per row
ReportRow(c, t, s) ==
  [id |-> <<c, t, s>>, latitude |-> c[1], longitude |-> c[2],
   created_at |-> t, status |-> s]

RowUniverse(base) ==
  {ReportRow(c, t, s) : c \in CoordValues(base), t \in CreatedAtValues,
                        s \in StoreStatuses}

RECURSIVE SubsetsUpTo(_, _)
SubsetsUpTo(U, k) ==
  IF k = 0 THEN {{}}
  ELSE LET smaller == SubsetsUpTo(U, k - 1)
       IN smaller \cup {S \cup {x} : S \in smaller, x \in U}

UserLocationOf(base) == [latitude |-> base, longitude |-> 0]

(***************************************************************************)
(* The bounding-box query of fetchReportsNearLocation.                    *)
(***************************************************************************)
\* v >= centre - radiusKm / 111 and v <= centre + radiusKm / 111 in degrees,
\* for v and centre in hundredths of a degree (both sides times 111 * 100).
WithinDegrees(v, centre, radiusKm) ==
  /\ KmPerDegree * v >= KmPerDegree * centre - 100 * radiusKm
  /\ KmPerDegree * v <= KmPerDegree * centre + 100 * radiusKm

\* mutant: the query without its two .not(... is null) filters, a null
\* coordinate comparing as 0
InBoundingBox_WithoutNullFilters(row, userLocation, radiusKm) ==
  /\ WithinDegrees(Number(row.latitude), userLocation.latitude, radiusKm)
  /\ WithinDegrees(Number(row.longitude), userLocation.longitude, radiusKm)

\* .not(latitude is null).not(longitude is null).gte().lte().gte().lte()
InBoundingBox(row, userLocation, radiusKm) ==
  /\ row.latitude # Null
  /\ row.longitude # Null
  /\ WithinDegrees(row.latitude[1], userLocation.latitude, radiusKm)
  /\ WithinDegrees(row.longitude[1], userLocation.longitude, radiusKm)

\* .order('created_at', {ascending: false}): every order of the rows that is
\* descending in created_at (the order of rows of equal created_at is the
\* database's choice).
QueryOrders(rows) ==
  {s \in [1..Cardinality(rows) -> rows] :
     /\ \A i, j \in 1..Cardinality(rows) : i # j => s[i] # s[j]
     /\ \A i, j \in 1..Cardinality(rows) :
          i < j => s[i].created_at >= s[j].created_at}

\* if (limit) query.limit(limit)
ApplyLimit(s, limit) ==
  IF limit # 0 THEN SubSeq(s, 1, Min(limit, Len(s))) ELSE s

\* The possible values of `data`: the rows matching the filters (with the
\* status filter when a status is given), ordered, then limited.
BoundingBoxQuery(rows, userLocation, radiusKm, status, limit) ==
  LET matching == {row \in rows :
                     /\ InBoundingBox(row, userLocation, radiusKm)
                     /\ (status # "" => row.status = status)}
  IN {ApplyLimit(s, limit) : s \in QueryOrders(matching)}

(***************************************************************************)
(* The exact filter and the ranking.                                      *)
(***************************************************************************)
\* .map(report => ({...report, distance: calculateDistance(...)}))
WithDistance(data, userLocation) ==
  [i \in 1..Len(data) |->
     [distance |-> calculateDistance(userLocation.latitude,
                                     userLocation.longitude,
                                     Number(data[i].latitude),
                                     Number(data[i].longitude))] @@ data[i]]

\* report.distance <= radiusKm, the distance being in metres here
WithinRadius(report, radiusKm) == report.distance <= radiusKm * 1000

\* mutant: the exact filter keeps every row of the bounding box
FilterByRadius_KeepAll(s, radiusKm) == s

\* .filter(report => report.distance <= radiusKm)
FilterByRadius(s, radiusKm) ==
  SelectSeq(s, LAMBDA report : WithinRadius(report, radiusKm))

\* mutant: the comparator with its operands exchanged
CompareDistance_Descending(a, b) == b.distance - a.distance

\* the comparator (a, b) => a.distance - b.distance
CompareDistance(a, b) == a.distance - b.distance

\* Array.prototype.sort is stable: x goes after every element that does not
\* compare greater than it.
RECURSIVE InsertSorted(_, _)
InsertSorted(sorted, x) ==
  IF sorted = <<>> THEN <<x>>
  ELSE IF CompareDistance(sorted[Len(sorted)], x) <= 0
       THEN Append(sorted, x)
       ELSE Append(InsertSorted(SubSeq(sorted, 1, Len(sorted) - 1), x),
                   sorted[Len(sorted)])

RECURSIVE SortByDistance(_)
SortByDistance(s) ==
  IF s = <<>> THEN <<>>
  ELSE InsertSorted(SortByDistance(SubSeq(s, 1, Len(s) - 1)), s[Len(s)])

\* reportsWithDistance of fetchReportsNearLocation, given the query's data
ReportsWithDistance(data, userLocation, radiusKm) ==
  SortByDistance(FilterByRadius(WithDistance(data, userLocation), radiusKm))

\* reports.length > 0 ? reports[0] : null
FirstOrNull(reports) == IF Len(reports) > 0 THEN Some(reports[1]) ELSE Null

\* the limit getNearestReport passes to fetchReportsNearLocation
NearestLimit == 1

(***************************************************************************)
(* The proximity search.  The library functions keep no state: the table  *)
(* and the arguments are any within the bounds, and a step is one call of *)
(* a library function on them.                                            *)
(***************************************************************************)
\* the search before any call, for the specifications of the other components
SearchIdle ==
  /\ city = 0
  /\ dbReports = {}
  /\ nearArgs = [userLocation |-> UserLocationOf(0), radiusKm |-> 5,
                 status |-> "", limit |-> 0]
  /\ call = "none"
  /\ nearData = <<>>
  /\ nearResult = <<>>
  /\ nearest = Null
  /\ aroundReports = <<>>
  /\ aroundLoading = TRUE
  /\ aroundError = Null
  /\ boxResult = <<>>
  /\ repeatResult = <<>>

SearchInit ==
  /\ LocIdle
  /\ PageIdle
  /\ MyIdle
  /\ HomeIdle
  /\ AroundIdle
  /\ LatestIdle
  /\ FormatIdle
  /\ LocateIdle
  /\ DashIdle
  /\ SelectorIdle
  /\ city \in BaseLats
  /\ dbReports \in SubsetsUpTo(RowUniverse(city), MaxReports)
  /\ nearArgs \in [userLocation : {UserLocationOf(city)}, radiusKm : RadiusValues,
                   status : StatusArgs, limit : LimitArgs]
  /\ call = "none"
  /\ nearData = <<>>
  /\ nearResult = <<>>
  /\ nearest = Null
  /\ aroundReports = <<>>
  /\ aroundLoading = TRUE
  /\ aroundError = Null
  /\ boxResult = <<>>
  /\ repeatResult = <<>>

\* fetchReportsNearLocation(userLocation, radiusKm, status, limit) returning
fetchReportsNearLocation ==
  /\ call = "none"
  /\ \E data \in BoundingBoxQuery(dbReports, nearArgs.userLocation,
                                  nearArgs.radiusKm, nearArgs.status, nearArgs.limit) :
       /\ nearData' = data
       /\ nearResult' = ReportsWithDistance(data, nearArgs.userLocation,
                                            nearArgs.radiusKm)
  /\ call' = "fetchReportsNearLocation"
  /\ UNCHANGED nonSearchVars
  /\ UNCHANGED <<boxResult, repeatResult, city, dbReports, nearArgs, nearest, aroundReports, aroundLoading, aroundError>>

\* fetchReportsNearLocation when the query reports an error: it throws
fetchReportsNearLocationError ==
  /\ call = "none"
  /\ call' = "fetchReportsNearLocation threw"
  /\ UNCHANGED nonSearchVars
  /\ UNCHANGED <<boxResult, repeatResult, city, dbReports, nearArgs, nearData, nearResult, nearest,
                 aroundReports, aroundLoading, aroundError>>

\* getNearestReport(userLocation, radiusKm) returning: it calls
\* fetchReportsNearLocation(userLocation, radiusKm, undefined, 1)
getNearestReport ==
  /\ call = "none"
  /\ \E data \in BoundingBoxQuery(dbReports, nearArgs.userLocation,
                                  nearArgs.radiusKm, "", NearestLimit) :
       /\ nearData' = data
       /\ nearResult' = ReportsWithDistance(data, nearArgs.userLocation,
                                            nearArgs.radiusKm)
       /\ nearest' = FirstOrNull(nearResult')
  /\ call' = "getNearestReport"
  /\ UNCHANGED nonSearchVars
  /\ UNCHANGED <<boxResult, repeatResult, city, dbReports, nearArgs, aroundReports, aroundLoading, aroundError>>

\* getNearestReport when the query reports an error: it rethrows
getNearestReportError ==
  /\ call = "none"
  /\ call' = "getNearestReport threw"
  /\ UNCHANGED nonSearchVars
  /\ UNCHANGED <<boxResult, repeatResult, city, dbReports, nearArgs, nearData, nearResult, nearest,
                 aroundReports, aroundLoading, aroundError>>

\* fetchNearbyReports(location) of the Reports Around Me page, from its call
\* to its completion, with the page's radius state being nearArgs.radiusKm:
\* the query has neither status filter nor limit
fetchNearbyReports ==
  /\ call = "none"
  /\ \E data \in BoundingBoxQuery(dbReports, nearArgs.userLocation,
                                  nearArgs.radiusKm, "", 0) :
       /\ nearData' = data
       /\ aroundReports' = ReportsWithDistance(data, nearArgs.userLocation,
                                               nearArgs.radiusKm)
  /\ aroundError' = Null
  /\ aroundLoading' = FALSE
  /\ call' = "fetchNearbyReports"
  /\ UNCHANGED nonSearchVars
  /\ UNCHANGED <<boxResult, repeatResult, city, dbReports, nearArgs, nearResult, nearest>>

\* fetchNearbyReports when the query reports an error: the message is
\* displayed and the list is left as it was
fetchNearbyReportsError ==
  /\ call = "none"
  /\ aroundError' = Some("fetchError.message")
  /\ aroundLoading' = FALSE
  /\ call' = "fetchNearbyReports failed"
  /\ UNCHANGED nonSearchVars
  /\ UNCHANGED <<boxResult, repeatResult, city, dbReports, nearArgs, nearData, nearResult, nearest,
                 aroundReports>>

\* fetchReportsInBoundingBox(userLocation, radiusKm, status) returning: the
\* rows of the query as they came, neither measured nor filtered nor limited
fetchReportsInBoundingBox ==
  /\ call = "none"
  /\ \E data \in BoundingBoxQuery(dbReports, nearArgs.userLocation,
                                  nearArgs.radiusKm, nearArgs.status, 0) :
       /\ nearData' = data
       /\ boxResult' = data
  /\ call' = "fetchReportsInBoundingBox"
  /\ UNCHANGED nonSearchVars
  /\ UNCHANGED <<repeatResult, city, dbReports, nearArgs, nearResult, nearest,
                 aroundReports, aroundLoading, aroundError>>

\* fetchReportsInBoundingBox when the query reports an error: it throws
fetchReportsInBoundingBoxError ==
  /\ call = "none"
  /\ call' = "fetchReportsInBoundingBox threw"
  /\ UNCHANGED nonSearchVars
  /\ UNCHANGED <<boxResult, repeatResult, city, dbReports, nearArgs, nearData,
                 nearResult, nearest, aroundReports, aroundLoading, aroundError>>

\* fetchReportsNearLocation called again with the arguments of the call
\* before and the table as it was
fetchReportsNearLocationAgain ==
  /\ call = "fetchReportsNearLocation"
  /\ \E data \in BoundingBoxQuery(dbReports, nearArgs.userLocation,
                                  nearArgs.radiusKm, nearArgs.status, nearArgs.limit) :
       repeatResult' = ReportsWithDistance(data, nearArgs.userLocation,
                                           nearArgs.radiusKm)
  /\ call' = "fetchReportsNearLocation twice"
  /\ UNCHANGED nonSearchVars
  /\ UNCHANGED <<boxResult, city, dbReports, nearArgs, nearData, nearResult, nearest,
                 aroundReports, aroundLoading, aroundError>>

SearchNext ==
  \/ fetchReportsNearLocation
  \/ fetchReportsNearLocationError
  \/ getNearestReport
  \/ getNearestReportError
  \/ fetchNearbyReports
  \/ fetchNearbyReportsError
  \/ fetchReportsInBoundingBox
  \/ fetchReportsInBoundingBoxError
  \/ fetchReportsNearLocationAgain

SpecSearch == SearchInit /\ [][SearchNext]_vars

(***************************************************************************)
(* Claims about the proximity search, checked under SpecSearch.           *)
(***************************************************************************)
\* the Haversine distance in metres from the centre of the call to a row
DistanceTo(row) ==
  calculateDistance(nearArgs.userLocation.latitude, nearArgs.userLocation.longitude,
                    Number(row.latitude), Number(row.longitude))

HasCoordinates(row) == row.latitude # Null /\ row.longitude # Null

\* the stored reports with coordinates within the radius of the call
StoredWithinRadius ==
  {row \in dbReports :
     HasCoordinates(row) /\ DistanceTo(row) <= nearArgs.radiusKm * 1000}

\* the list the last call produced
Returned ==
  IF call = "fetchNearbyReports" THEN aroundReports ELSE nearResult

\* C1: every report returned by fetchReportsNearLocation(C, r), and every
\* report fetchNearbyReports puts into the displayed list, has Haversine
\* distance to C less than or equal to r.
C1_ReturnedWithinRadius ==
  call \in {"fetchReportsNearLocation", "fetchNearbyReports"} =>
    \A i \in 1..Len(Returned) :
      DistanceTo(Returned[i]) <= nearArgs.radiusKm * 1000

\* C1 witness: a call returned a report while the exact filter dropped
\* another row of the bounding box.
C1_Witness ==
  /\ call \in {"fetchReportsNearLocation", "fetchNearbyReports"}
  /\ Len(Returned) > 0
  /\ Len(nearData) > Len(Returned)

\* C2 (as claimed): without status filter and limit, the bounding-box query
\* returns every stored report with coordinates whose Haversine distance to
\* the centre is at most r, so fetch and filter together miss none.
C2_BoxContainsCircle ==
  (call = "fetchReportsNearLocation" /\ nearArgs.status = "" /\ nearArgs.limit = 0) =>
    \A row \in StoredWithinRadius :
      /\ \E i \in 1..Len(nearData) : nearData[i] = row
      /\ \E i \in 1..Len(nearResult) : nearResult[i].id = row.id

\* C3: the list fetchReportsNearLocation returns is ascending in distance,
\* and each element is a stored report with all its fields plus its
\* Haversine distance to the centre.
C3_SortedWithDistance ==
  call = "fetchReportsNearLocation" =>
    /\ \A i, j \in 1..Len(nearResult) :
         i < j => nearResult[i].distance <= nearResult[j].distance
    /\ \A i \in 1..Len(nearResult) :
         \E row \in dbReports :
           /\ DOMAIN nearResult[i] = DOMAIN row \cup {"distance"}
           /\ \A f \in DOMAIN row : nearResult[i][f] = row[f]
           /\ nearResult[i].distance = DistanceTo(row)

\* C3 witness: two reports at different distances came back from the query
\* farther one first and were returned nearer one first.
C3_Witness ==
  /\ call = "fetchReportsNearLocation"
  /\ Len(nearResult) = 2
  /\ Len(nearData) = 2
  /\ nearResult[1].distance < nearResult[2].distance
  /\ nearResult[1].id = nearData[2].id

\* C4 (as claimed): getNearestReport(C, r) returns a report at minimal
\* distance among the stored reports within r of C, and null only when no
\* stored report with coordinates is within r of C.
C4_NearestIsNearest ==
  call = "getNearestReport" =>
    /\ (nearest = Null) <=> (StoredWithinRadius = {})
    /\ nearest # Null =>
         \A row \in StoredWithinRadius : nearest[1].distance <= DistanceTo(row)

(***************************************************************************)
(* The location acquirer: getCurrentLocationWithGoogleMaps and            *)
(* getBrowserLocation, in the library and in the Reports Around Me page.  *)
(* The environment answers each request in any of the ways it can.        *)
(***************************************************************************)
\* what navigator.geolocation can deliver to the success callback
DevicePositions == {[latitude |-> 6000, longitude |-> 0],
                    [latitude |-> 0, longitude |-> 0]}
\* what the geolocation endpoint (considerIp) can answer
NetworkPositions == {[latitude |-> 6004, longitude |-> 4]}

\* the rejections of getBrowserLocation
DeviceErrors == {"Geolocation is not supported by this browser.",
                 "Location access denied by user.",
                 "Location information is unavailable.",
                 "Location request timed out."}

\* the responses of fetch(geocodingUrl): ok or not, with a body that is not
\* JSON, or JSON with a status other than 'OK' (or no results), or JSON
\* with status 'OK' and an address
GeocodingResponses ==
  {r \in [ok : BOOLEAN, body : {"invalid json", "not OK", "OK"}] :
     ~r.ok => r.body # "OK"}

\* the responses of fetch(geolocationUrl): ok with a location, or an error
GeolocationResponses ==
  {r \in [ok : BOOLEAN, body : {"invalid json", "error", "location"}] :
     r.ok <=> r.body = "location"} \cup {[ok |-> TRUE, body |-> "invalid json"]}

FormattedAddress == "results[0].formatted_address"

\* a UserLocation; address is Null when the field is absent or undefined
UserLocation(pos, address) ==
  [kind |-> "location", latitude |-> pos.latitude, longitude |-> pos.longitude,
   address |-> address]

\* a rejection of the promise with new Error(message); the message is the
\* sequence of the parts of the template string
LocationError(message) == [kind |-> "error", message |-> message]

\* new Error(`Failed to get location: ${googleError.message}`)
FailedToGetLocation(cause) == LocationError(<<"Failed to get location: ", cause>>)

\* geocodingData.status === 'OK' && geocodingData.results.length > 0
\*   ? geocodingData.results[0].formatted_address : undefined
AddressOf(body) == IF body = "OK" THEN Some(FormattedAddress) ELSE Null

\* if (!geocodingResponse.ok) throw: only the library checks it, and only
\* for the geocoding of the device position
ThrowsOnStatus(impl, r) == impl = "lib" /\ ~r.ok

\* catch (browserError): the geolocation endpoint is requested
CatchBrowserError ==
  /\ networkRequests' = networkRequests + 1
  /\ locPc' = "geolocate"
  /\ UNCHANGED <<locOutcome, deviceAttempts>>

\* catch (googleError): the library with fallbackToBrowser returns
\* getBrowserLocation(); otherwise Failed to get location is thrown
CatchGoogleError(cause) ==
  /\ IF locImpl = "lib" /\ fallbackToBrowser
       THEN /\ deviceAttempts' = deviceAttempts + 1
            /\ locPc' = "device fallback"
            /\ UNCHANGED locOutcome
       ELSE /\ locOutcome' = FailedToGetLocation(cause)
            /\ locPc' = "done"
            /\ UNCHANGED deviceAttempts
  /\ UNCHANGED networkRequests

\* return of a value
Return(value) ==
  /\ locOutcome' = value
  /\ locPc' = "done"
  /\ UNCHANGED <<deviceAttempts, networkRequests>>

LocInit ==
  /\ SearchIdle
  /\ PageIdle
  /\ MyIdle
  /\ HomeIdle
  /\ AroundIdle
  /\ LatestIdle
  /\ FormatIdle
  /\ LocateIdle
  /\ DashIdle
  /\ SelectorIdle
  /\ locImpl \in {"lib", "page"}
  /\ googleApiKey \in BOOLEAN
  /\ fallbackToBrowser \in (IF locImpl = "lib" THEN BOOLEAN ELSE {FALSE})
  /\ locPc = "start"
  /\ browserLocation = Null
  /\ geolocationData = Null
  /\ response = Null
  /\ locOutcome = Null
  /\ deviceAttempts = 0
  /\ networkRequests = 0
  /\ geocodeRequests = 0
  /\ obtained = <<>>
  /\ locFailures = {}

\* getCurrentLocationWithGoogleMaps up to its first await, or to its end
\* when there is no API key
getCurrentLocationWithGoogleMaps ==
  /\ locPc = "start"
  /\ IF ~googleApiKey
       THEN IF locImpl = "lib" /\ fallbackToBrowser
              THEN /\ deviceAttempts' = deviceAttempts + 1
                   /\ locPc' = "device only"
                   /\ UNCHANGED locOutcome
              ELSE /\ locOutcome' = LocationError(<<"Google Maps API key not found.">>)
                   /\ locPc' = "done"
                   /\ UNCHANGED deviceAttempts
       ELSE /\ deviceAttempts' = deviceAttempts + 1
            /\ locPc' = "device"
            /\ UNCHANGED locOutcome
  /\ UNCHANGED <<locImpl, googleApiKey, fallbackToBrowser, browserLocation,
                 geolocationData, response, networkRequests, geocodeRequests,
                 obtained, locFailures>>
  /\ UNCHANGED nonLocVars

\* getBrowserLocation resolves with the position of the device.  In the try
\* block the geocoding request follows; in the two fallbacks
\* (return getBrowserLocation()) the position is the result.
getBrowserLocationResolves ==
  /\ locPc \in {"device", "device only", "device fallback"}
  /\ \E pos \in DevicePositions :
       /\ obtained' = Append(obtained, [source |-> "device", coords |-> pos])
       /\ IF locPc = "device"
            THEN /\ browserLocation' = pos
                 /\ geocodeRequests' = geocodeRequests + 1
                 /\ locPc' = "geocode browser"
                 /\ UNCHANGED locOutcome
            ELSE /\ locOutcome' = UserLocation(pos, Null)
                 /\ locPc' = "done"
                 /\ UNCHANGED <<browserLocation, geocodeRequests>>
  /\ UNCHANGED <<locImpl, googleApiKey, fallbackToBrowser, geolocationData,
                 response, deviceAttempts, networkRequests, locFailures>>
  /\ UNCHANGED nonLocVars

\* getBrowserLocation rejects.  In the try block the catch (browserError)
\* follows; in the fallbacks the rejection is the result.
getBrowserLocationRejects ==
  /\ locPc \in {"device", "device only", "device fallback"}
  /\ \E cause \in DeviceErrors :
       IF locPc = "device"
         THEN CatchBrowserError
         ELSE /\ locOutcome' = LocationError(<<cause>>)
              /\ locPc' = "done"
              /\ UNCHANGED <<deviceAttempts, networkRequests>>
  /\ locFailures' = locFailures \cup {"device"}
  /\ UNCHANGED <<locImpl, googleApiKey, fallbackToBrowser, browserLocation,
                 geolocationData, response, geocodeRequests, obtained>>
  /\ UNCHANGED nonLocVars

\* await fetch(geocodingUrl) for the device position rejects
browserGeocodingFetchRejects ==
  /\ locPc = "geocode browser"
  /\ CatchBrowserError
  /\ locFailures' = locFailures \cup {"geocode"}
  /\ UNCHANGED <<locImpl, googleApiKey, fallbackToBrowser, browserLocation,
                 geolocationData, response, geocodeRequests, obtained>>
  /\ UNCHANGED nonLocVars

\* await fetch(geocodingUrl) for the device position resolves
browserGeocodingFetched ==
  /\ locPc = "geocode browser"
  /\ \E r \in GeocodingResponses :
       IF ThrowsOnStatus(locImpl, r)
         THEN /\ CatchBrowserError
              /\ locFailures' = locFailures \cup {"geocode"}
              /\ UNCHANGED response
         ELSE /\ response' = r
              /\ locPc' = "geocode browser json"
              /\ UNCHANGED <<locOutcome, deviceAttempts, networkRequests, locFailures>>
  /\ UNCHANGED <<locImpl, googleApiKey, fallbackToBrowser, browserLocation,
                 geolocationData, geocodeRequests, obtained>>
  /\ UNCHANGED nonLocVars

\* await geocodingResponse.json() for the device position settles
browserGeocodingParsed ==
  /\ locPc = "geocode browser json"
  /\ IF response.body = "invalid json"
       THEN CatchBrowserError
       ELSE Return(UserLocation(browserLocation, AddressOf(response.body)))
  /\ locFailures' = IF response.body = "OK" THEN locFailures
                    ELSE locFailures \cup {"geocode"}
  /\ response' = Null
  /\ UNCHANGED <<locImpl, googleApiKey, fallbackToBrowser, browserLocation,
                 geolocationData, geocodeRequests, obtained>>
  /\ UNCHANGED nonLocVars

\* await fetch(geolocationUrl) rejects
geolocationFetchRejects ==
  /\ locPc = "geolocate"
  /\ CatchGoogleError("fetch failed")
  /\ locFailures' = locFailures \cup {"network"}
  /\ UNCHANGED <<locImpl, googleApiKey, fallbackToBrowser, browserLocation,
                 geolocationData, response, geocodeRequests, obtained>>
  /\ UNCHANGED nonLocVars

\* await fetch(geolocationUrl) resolves; if (!geolocationResponse.ok) throw
geolocationFetched ==
  /\ locPc = "geolocate"
  /\ \E r \in GeolocationResponses :
       IF ~r.ok
         THEN /\ CatchGoogleError("Google Maps Geolocation API error")
              /\ locFailures' = locFailures \cup {"network"}
              /\ UNCHANGED response
         ELSE /\ response' = r
              /\ locPc' = "geolocate json"
              /\ UNCHANGED <<locOutcome, deviceAttempts, networkRequests, locFailures>>
  /\ UNCHANGED <<locImpl, googleApiKey, fallbackToBrowser, browserLocation,
                 geolocationData, geocodeRequests, obtained>>
  /\ UNCHANGED nonLocVars

\* await geolocationResponse.json() settles; with the position the
\* geocoding request for it is sent
geolocationParsed ==
  /\ locPc = "geolocate json"
  /\ IF response.body = "invalid json"
       THEN /\ CatchGoogleError("invalid json")
            /\ locFailures' = locFailures \cup {"network"}
            /\ UNCHANGED <<geolocationData, geocodeRequests, obtained>>
       ELSE \E pos \in NetworkPositions :
              /\ geolocationData' = pos
              /\ obtained' = Append(obtained, [source |-> "network", coords |-> pos])
              /\ geocodeRequests' = geocodeRequests + 1
              /\ locPc' = "geocode network"
              /\ UNCHANGED <<locOutcome, deviceAttempts, networkRequests, locFailures>>
  /\ response' = Null
  /\ UNCHANGED <<locImpl, googleApiKey, fallbackToBrowser, browserLocation>>
  /\ UNCHANGED nonLocVars

\* what a throw in the geocoding of the network position leads to: the
\* library's catch (geocodingError) returns the position without address; in
\* the page the throw reaches catch (googleError)
NetworkGeocodingThrown(cause) ==
  IF locImpl = "lib"
    THEN Return(UserLocation(geolocationData, Null))
    ELSE /\ locOutcome' = FailedToGetLocation(cause)
         /\ locPc' = "done"
         /\ UNCHANGED <<deviceAttempts, networkRequests>>

\* await fetch(geocodingUrl) for the network position rejects
networkGeocodingFetchRejects ==
  /\ locPc = "geocode network"
  /\ NetworkGeocodingThrown("fetch failed")
  /\ locFailures' = locFailures \cup {"geocode"}
  /\ UNCHANGED <<locImpl, googleApiKey, fallbackToBrowser, browserLocation,
                 geolocationData, response, geocodeRequests, obtained>>
  /\ UNCHANGED nonLocVars

\* await fetch(geocodingUrl) for the network position resolves (ok is not
\* looked at)
networkGeocodingFetched ==
  /\ locPc = "geocode network"
  /\ \E r \in GeocodingResponses : response' = r
  /\ locPc' = "geocode network json"
  /\ UNCHANGED <<locImpl, googleApiKey, fallbackToBrowser, browserLocation,
                 geolocationData, locOutcome, deviceAttempts, networkRequests,
                 geocodeRequests, obtained, locFailures>>
  /\ UNCHANGED nonLocVars

\* await geocodingResponse.json() for the network position settles
networkGeocodingParsed ==
  /\ locPc = "geocode network json"
  /\ IF response.body = "invalid json"
       THEN NetworkGeocodingThrown("invalid json")
       ELSE Return(UserLocation(geolocationData, AddressOf(response.body)))
  /\ locFailures' = IF response.body = "OK" THEN locFailures
                    ELSE locFailures \cup {"geocode"}
  /\ response' = Null
  /\ UNCHANGED <<locImpl, googleApiKey, fallbackToBrowser, browserLocation,
                 geolocationData, geocodeRequests, obtained>>
  /\ UNCHANGED nonLocVars

LocNext ==
  \/ getCurrentLocationWithGoogleMaps
  \/ getBrowserLocationResolves
  \/ getBrowserLocationRejects
  \/ browserGeocodingFetchRejects
  \/ browserGeocodingFetched
  \/ browserGeocodingParsed
  \/ geolocationFetchRejects
  \/ geolocationFetched
  \/ geolocationParsed
  \/ networkGeocodingFetchRejects
  \/ networkGeocodingFetched
  \/ networkGeocodingParsed

SpecLoc == LocInit /\ [][LocNext]_vars

(***************************************************************************)
(* Claims about the location acquirer, checked under SpecLoc.             *)
(***************************************************************************)
\* the invocation has obtained coordinates from the device or the network
CoordinatesObtained == obtained # <<>>

\* the outcome is a UserLocation with coordinates obtained from source src
ReturnsCoordinatesOf(src) ==
  /\ locOutcome # Null
  /\ locOutcome.kind = "location"
  /\ \E i \in 1..Len(obtained) :
       /\ obtained[i].source = src
       /\ obtained[i].coords.latitude = locOutcome.latitude
       /\ obtained[i].coords.longitude = locOutcome.longitude

\* C5 (as claimed): once coordinates were obtained, the acquirer returns a
\* UserLocation with the coordinates of the source that yielded them first,
\* whatever happens to the reverse-geocoding request: no error, and no
\* coordinates of another source.
C5_GeocodingFailureNonFatal ==
  (locPc = "done" /\ CoordinatesObtained) =>
    ReturnsCoordinatesOf(obtained[1].source)

\* C6 (as claimed): one invocation attempts device geolocation at most once,
\* requests the geolocation endpoint at most once and only after the device
\* attempt failed, and requests reverse geocoding at most once.
C6_NoRetries ==
  /\ deviceAttempts <= 1
  /\ networkRequests <= 1
  /\ geocodeRequests <= 1
  /\ networkRequests > 0 =>
       /\ "device" \in locFailures
       /\ \A i \in 1..Len(obtained) : obtained[i].source # "device"

\* C7 (as claimed): the acquirer ends with a UserLocation or an error, with
\* an error exactly when neither the device nor the network yielded
\* coordinates, and the error carries a cause.
C7_ErrorIffNoCoordinates ==
  locPc = "done" =>
    /\ locOutcome # Null
    /\ locOutcome.kind \in {"location", "error"}
    /\ (locOutcome.kind = "error") <=> ~CoordinatesObtained
    /\ locOutcome.kind = "error" => locOutcome.message # <<>>

\* ---------------------------------------------------------------------------
\* The Report Incident page (app/report-incident/page.tsx)
\* ---------------------------------------------------------------------------

MaxAuthEvents == 2      \* auth state changes in one behaviour
MaxSubmissions == 1     \* submissions started in one behaviour of the session specification
MaxSteps == 6           \* user actions in one behaviour of the submission specification

PhotoLimit == 5

\* number of files the user picks in one file dialog
SelectionSizes == {1, 2}

\* the profiles table: userC has signed up and has no profile row yet
Users == {"userA", "userB", "userC"}
ProfilesTable ==
  { [id |-> "userA", name |-> "Asha", role |-> "Citizen"],
    [id |-> "userB", name |-> "Bala", role |-> "Contractor"] }

\* what supabase.auth.getSession() resolves to: { data: { session }, error }
GetSessionResults ==
  { [session |-> session, error |-> FALSE], [session |-> Null, error |-> TRUE] }

\* what from('profiles').select('id, name, role').eq('id', id).single() resolves to
ProfileResults(id) ==
  LET rows == {p \in ProfilesTable : p.id = id}
  IN  (IF rows = {} THEN {[data |-> Null, error |-> Some("PGRST116")]}
       ELSE {[data |-> Some(p), error |-> Null] : p \in rows})
      \cup {[data |-> Null, error |-> Some("network")]}

Mounted == route = "/report-incident"

\* the early returns of the render function: lines 316, 328 and 343
Rendered == Mounted /\ ~isLoading /\ user # Null /\ profileError = Null

\* useEffect: if (!isLoading && !user) router.push('/login')
RedirectEffect(loading, u, r) == IF ~loading /\ u = Null THEN "/login" ELSE r

EmptyForm == [location |-> <<>>, description |-> "", photos |-> <<>>]

\* positions the LocationSelector can deliver: with and without a resolved address
SelectableLocations ==
  { [lat |-> 12971600, lng |-> 77594600, address |-> Some("MG Road, Bengaluru")],
    [lat |-> 12980000, lng |-> 77600000, address |-> Null] }

\* selectedLocation.address || `${lat.toFixed(6)}, ${lng.toFixed(6)}`, coordinates in
\* millionths of a degree
LocationString(location) ==
  IF location.address # Null /\ location.address # Some("")
  THEN <<"address", location.address[1]>>
  ELSE <<"coordinates", location.lat, location.lng>>

Descriptions == {"", "   ", "Pothole near the bus stop"}

\* String.prototype.trim on the descriptions above
Trim(text) == IF text = "   " THEN "" ELSE text

\* File objects: the name as its dot-separated parts, the MIME type as its two halves
Files ==
  { [name |-> <<"pothole", "jpg">>, type |-> <<"image", "jpeg">>],
    [name |-> <<"street", "view", "png">>, type |-> <<"image", "png">>],
    [name |-> <<"notes", "txt">>, type |-> <<"text", "plain">>] }

FileLists == UNION {[1..n -> Files] : n \in SelectionSizes}

\* file.type.startsWith('image/')
IsImage(file) == file.type[1] = "image"

\* prev.filter((_, i) => i !== index), index counted from 0
RemoveAt(seq, index) ==
  IF index >= Len(seq) THEN seq
  ELSE [i \in 1..(Len(seq) - 1) |-> IF i <= index THEN seq[i] ELSE seq[i + 1]]

\* URL.createObjectURL(file)
createObjectURL(file) == <<"blob", file.name>>

\* photo.name.split('.').pop()
FileExt(photo) == photo.name[Len(photo.name)]

\* mutant: the key without the index of the photo
FilePath_WithoutIndex(profileId, now, index, fileExt) ==
  [profileId |-> profileId, timestamp |-> now, index |-> 0, extension |-> fileExt]
\* `${userProfile.id}/${Date.now()}-${index}.${fileExt}`, kept as the parts of the template
FilePath(profileId, now, index, fileExt) ==
  [profileId |-> profileId, timestamp |-> now, index |-> index, extension |-> fileExt]

\* supabase.storage.from('report-images').getPublicUrl(filePath)
PublicUrl(filePath) == [bucket |-> "report-images", path |-> filePath]

\* --- loadUserAndProfile and the auth state listener ---

NewLoad == [id |-> loadCount + 1, stage |-> "getSession", userId |-> Null]

\* await supabase.auth.getSession() of one invocation of loadUserAndProfile returns
getSessionResolves(load, result) ==
  /\ Mounted
  /\ load \in loads
  /\ load.stage = "getSession"
  /\ IF result.error
     THEN /\ profileError' = Some("Authentication error. Please log in again.")
          /\ isLoading' = FALSE
          /\ loads' = loads \ {load}
          /\ route' = RedirectEffect(FALSE, user, route)
          /\ UNCHANGED user
     ELSE IF result.session = Null
     THEN /\ user' = Null
          /\ isLoading' = FALSE
          /\ loads' = loads \ {load}
          /\ route' = RedirectEffect(FALSE, Null, route)
          /\ UNCHANGED profileError
     ELSE /\ user' = result.session
          /\ loads' = (loads \ {load})
                        \cup {[load EXCEPT !.stage = "profiles", !.userId = result.session]}
          /\ route' = RedirectEffect(isLoading, result.session, route)
          /\ UNCHANGED <<isLoading, profileError>>
  /\ UNCHANGED <<session, authEvents, authEventCount, loadCount, userProfile>>
  /\ UNCHANGED <<formVars, requestVars>>

\* the profiles query of one invocation of loadUserAndProfile returns
profileResolves(load, result) ==
  /\ Mounted
  /\ load \in loads
  /\ load.stage = "profiles"
  /\ IF result.error # Null
     THEN /\ profileError' =
               IF result.error = Some("PGRST116")
               THEN Some("No profile found. Please complete your profile setup.")
               ELSE Some("Error loading user profile. Please ensure your profile is set up correctly.")
          /\ UNCHANGED userProfile
     ELSE IF result.data = Null
     THEN /\ profileError' = Some("No profile found. Please complete your profile setup.")
          /\ UNCHANGED userProfile
     ELSE /\ userProfile' = result.data
          /\ UNCHANGED profileError
  /\ isLoading' = FALSE
  /\ loads' = loads \ {load}
  /\ route' = RedirectEffect(FALSE, user, route)
  /\ UNCHANGED <<session, authEvents, authEventCount, loadCount, user>>
  /\ UNCHANGED <<formVars, requestVars>>

\* the callback given to supabase.auth.onAuthStateChange
onAuthStateChange ==
  /\ Mounted
  /\ authEvents # <<>>
  /\ LET event == Head(authEvents).event
         eventSession == Head(authEvents).session
     IN  IF event = "SIGNED_OUT" \/ eventSession = Null
         THEN /\ user' = Null
              /\ userProfile' = Null
              /\ route' = "/login"
              /\ UNCHANGED <<loads, loadCount, isLoading, profileError>>
         ELSE IF event = "SIGNED_IN"
         THEN /\ user' = eventSession
              /\ isLoading' = TRUE
              /\ profileError' = Null
              /\ loads' = loads \cup {NewLoad}
              /\ loadCount' = loadCount + 1
              /\ UNCHANGED <<userProfile, route>>
         ELSE UNCHANGED <<user, userProfile, route, loads, loadCount, isLoading,
                          profileError>>
  /\ authEvents' = Tail(authEvents)
  /\ UNCHANGED <<session, authEventCount>>
  /\ UNCHANGED <<formVars, requestVars>>

\* the auth service: a sign-in (this tab or another) replaces the session
signIn(id) ==
  /\ Mounted
  /\ authEventCount < MaxAuthEvents
  /\ session' = Some(id)
  /\ authEvents' = Append(authEvents, [event |-> "SIGNED_IN", session |-> Some(id)])
  /\ authEventCount' = authEventCount + 1
  /\ UNCHANGED <<route, loads, loadCount, user, userProfile, isLoading, profileError>>
  /\ UNCHANGED <<formVars, requestVars>>

\* the auth service: the session is refreshed
tokenRefreshed ==
  /\ Mounted
  /\ authEventCount < MaxAuthEvents
  /\ session # Null
  /\ authEvents' = Append(authEvents, [event |-> "TOKEN_REFRESHED", session |-> session])
  /\ authEventCount' = authEventCount + 1
  /\ UNCHANGED <<session, route, loads, loadCount, user, userProfile, isLoading,
                 profileError>>
  /\ UNCHANGED <<formVars, requestVars>>

\* the auth service: a sign-out ends the session
signOut ==
  /\ Mounted
  /\ authEventCount < MaxAuthEvents
  /\ session # Null
  /\ session' = Null
  /\ authEvents' = Append(authEvents, [event |-> "SIGNED_OUT", session |-> Null])
  /\ authEventCount' = authEventCount + 1
  /\ UNCHANGED <<route, loads, loadCount, user, userProfile, isLoading, profileError>>
  /\ UNCHANGED <<formVars, requestVars>>

\* --- the form ---

handleLocationSelect(location) ==
  /\ Rendered
  /\ selectedLocation' = Some(location)
  /\ UNCHANGED <<showForm, formData, photoPreviews>>
  /\ UNCHANGED <<authVars, requestVars>>

\* the Report Incident button, rendered when selectedLocation && !showForm
handleReportIncidentClick ==
  /\ Rendered
  /\ selectedLocation # Null
  /\ ~showForm
  /\ IF userProfile = Null
     THEN UNCHANGED <<showForm, formData, photoPreviews>>
     ELSE /\ formData' = [location |-> LocationString(selectedLocation[1]),
                          description |-> "", photos |-> <<>>]
          /\ photoPreviews' = <<>>
          /\ showForm' = TRUE
  /\ UNCHANGED selectedLocation
  /\ UNCHANGED <<authVars, requestVars>>

\* onChange of the description textarea
setDescription(value) ==
  /\ Rendered
  /\ showForm
  /\ value # formData.description
  /\ formData' = [formData EXCEPT !.description = value]
  /\ UNCHANGED <<selectedLocation, showForm, photoPreviews>>
  /\ UNCHANGED <<authVars, requestVars>>

\* mutant: handleFileSelect without the check of the photo limit
handleFileSelect_NoLimit(files) ==
  /\ Rendered
  /\ showForm
  /\ Len(formData.photos) < PhotoLimit
  /\ LET validFiles == SelectSeq(files, IsImage)
         newPreviews == [i \in 1..Len(validFiles) |-> createObjectURL(validFiles[i])]
     IN  /\ formData' = [formData EXCEPT !.photos = @ \o validFiles]
         /\ photoPreviews' = photoPreviews \o newPreviews
  /\ UNCHANGED <<selectedLocation, showForm>>
  /\ UNCHANGED <<authVars, requestVars>>

\* onChange of the file inputs; the buttons that open them are disabled at the photo limit
handleFileSelect(files) ==
  /\ Rendered
  /\ showForm
  /\ Len(formData.photos) < PhotoLimit
  /\ LET validFiles == SelectSeq(files, IsImage)
         newPreviews == [i \in 1..Len(validFiles) |-> createObjectURL(validFiles[i])]
     IN  IF Len(formData.photos) + Len(validFiles) > PhotoLimit
         THEN UNCHANGED <<formData, photoPreviews>>
         ELSE /\ formData' = [formData EXCEPT !.photos = @ \o validFiles]
              /\ photoPreviews' = photoPreviews \o newPreviews
  /\ UNCHANGED <<selectedLocation, showForm>>
  /\ UNCHANGED <<authVars, requestVars>>

\* the remove button of preview index (counted from 0)
removePhoto(index) ==
  /\ Rendered
  /\ showForm
  /\ index \in 0..(Len(photoPreviews) - 1)
  /\ formData' = [formData EXCEPT !.photos = RemoveAt(@, index)]
  /\ photoPreviews' = RemoveAt(photoPreviews, index)
  /\ UNCHANGED <<selectedLocation, showForm>>
  /\ UNCHANGED <<authVars, requestVars>>

\* the Cancel button, disabled while isSubmitting
handleCancel ==
  /\ Rendered
  /\ showForm
  /\ ~isSubmitting
  /\ showForm' = FALSE
  /\ formData' = EmptyForm
  /\ photoPreviews' = <<>>
  /\ UNCHANGED selectedLocation
  /\ UNCHANGED <<authVars, requestVars>>

\* --- handleFormSubmit ---

\* mutant: the success path clears the selected location and leaves the form open
SubmitSucceeded_KeepsForm ==
  IF Mounted
  THEN /\ selectedLocation' = Null
       /\ formData' = EmptyForm
       /\ photoPreviews' = <<>>
       /\ isSubmitting' = FALSE
       /\ UNCHANGED showForm
  ELSE UNCHANGED <<formVars, isSubmitting>>

\* the state updates of the try block after the insert: lines 289-292, then finally
SubmitSucceeded ==
  IF Mounted
  THEN /\ selectedLocation' = Null
       /\ showForm' = FALSE
       /\ formData' = EmptyForm
       /\ photoPreviews' = <<>>
       /\ isSubmitting' = FALSE
  ELSE UNCHANGED <<formVars, isSubmitting>>

\* mutant: the failure path resets the form as the success path does
SubmitFailed_ResetsForm ==
  IF Mounted
  THEN /\ isSubmitting' = FALSE
       /\ showForm' = FALSE
       /\ formData' = EmptyForm
       /\ photoPreviews' = <<>>
       /\ UNCHANGED selectedLocation
  ELSE UNCHANGED <<formVars, isSubmitting>>
\* catch (error) and finally: lines 294-299
SubmitFailed ==
  IF Mounted
  THEN /\ isSubmitting' = FALSE
       /\ UNCHANGED formVars
  ELSE UNCHANGED <<formVars, isSubmitting>>

\* the row handed to from('reports').insert, built from the handler's closure
InsertedRow(closure, photoUrls) ==
  [profile_id |-> closure.userProfile.id,
   location_string |-> closure.formData.location,
   description |-> closure.formData.description,
   latitude |-> IF closure.selectedLocation = Null THEN Null
                ELSE Some(closure.selectedLocation[1].lat),
   longitude |-> IF closure.selectedLocation = Null THEN Null
                 ELSE Some(closure.selectedLocation[1].lng),
   address |-> IF closure.selectedLocation = Null THEN Null
               ELSE closure.selectedLocation[1].address,
   photo_urls |-> photoUrls,
   status |-> "pending"]

\* uploadPhotosToStorage: the key of each photo, all computed before the first await
FilePaths(profileId, now, photos) ==
  [i \in 1..Len(photos) |-> FilePath(profileId, now, i - 1, FileExt(photos[i]))]

\* the Submit button, disabled while isSubmitting; the textarea is `required`
handleFormSubmit ==
  /\ Rendered
  /\ showForm
  /\ ~isSubmitting
  /\ formData.description # ""
  /\ IF Trim(formData.description) = "" \/ userProfile = Null
     THEN UNCHANGED <<isSubmitting, clock, submission, submitCount, uploads>>
     ELSE /\ isSubmitting' = TRUE
          /\ submitCount' = submitCount + 1
          /\ clock' = clock + 1
          /\ LET closure == [no |-> submitCount + 1,
                             userProfile |-> userProfile[1],
                             formData |-> formData,
                             selectedLocation |-> selectedLocation,
                             filePaths |-> FilePaths(userProfile[1].id, clock,
                                                     formData.photos),
                             fulfilled |-> {}]
             IN  IF Len(formData.photos) > 0
                 THEN /\ submission' = Some([stage |-> "uploading"] @@ closure)
                      /\ uploads' = uploads \cup
                           {[no |-> closure.no, index |-> i - 1,
                             filePath |-> closure.filePaths[i]] :
                                i \in 1..Len(formData.photos)}
                 ELSE /\ submission' = Some([stage |-> "inserting"] @@ closure)
                      /\ UNCHANGED uploads
  /\ UNCHANGED <<storage, insertedReports>>
  /\ UNCHANGED <<authVars, formVars>>

\* whether the handler is awaiting the Promise.all that holds this upload
Awaited(upload) ==
  /\ submission # Null
  /\ submission[1].no = upload.no
  /\ submission[1].stage = "uploading"

\* the storage service stores the object; without upsert an existing key is refused
uploadFulfilled(upload) ==
  /\ upload \in uploads
  /\ upload.filePath \notin storage
  /\ uploads' = uploads \ {upload}
  /\ storage' = storage \cup {upload.filePath}
  /\ IF Awaited(upload)
     THEN LET fulfilled == submission[1].fulfilled \cup {upload.index}
          IN  submission' =
                Some([submission[1] EXCEPT
                        !.fulfilled = fulfilled,
                        !.stage = IF Cardinality(fulfilled) = Len(submission[1].filePaths)
                                  THEN "inserting" ELSE "uploading"])
     ELSE UNCHANGED submission
  /\ UNCHANGED <<isSubmitting, clock, submitCount, insertedReports>>
  /\ UNCHANGED <<authVars, formVars>>

\* the storage service answers with an error
uploadRejected(upload) ==
  /\ upload \in uploads
  /\ uploads' = uploads \ {upload}
  /\ IF Awaited(upload)
     THEN /\ submission' = Null
          /\ SubmitFailed
     ELSE UNCHANGED <<submission, formVars, isSubmitting>>
  /\ UNCHANGED <<clock, submitCount, storage, insertedReports>>
  /\ UNCHANGED authVars

\* photoUrls: the public URL of each key, in the order of Promise.all
PhotoUrls(filePaths) == [i \in 1..Len(filePaths) |-> PublicUrl(filePaths[i])]

\* the reports table inserts the row
insertFulfilled ==
  /\ submission # Null
  /\ submission[1].stage = "inserting"
  /\ insertedReports' = insertedReports
       \cup {[id |-> Cardinality(insertedReports) + 1]
               @@ InsertedRow(submission[1], PhotoUrls(submission[1].filePaths))}
  /\ submission' = Null
  /\ SubmitSucceeded
  /\ UNCHANGED <<clock, submitCount, uploads, storage>>
  /\ UNCHANGED authVars

\* the reports table answers with an error
insertRejected ==
  /\ submission # Null
  /\ submission[1].stage = "inserting"
  /\ submission' = Null
  /\ SubmitFailed
  /\ UNCHANGED <<clock, submitCount, uploads, storage, insertedReports>>
  /\ UNCHANGED authVars

\* --- the specification of the submission: the page has loaded the profile of its user ---

SubmitInit ==
  /\ SearchIdle
  /\ LocIdle
  /\ MyIdle
  /\ HomeIdle
  /\ AroundIdle
  /\ LatestIdle
  /\ FormatIdle
  /\ LocateIdle
  /\ DashIdle
  /\ SelectorIdle
  /\ route = "/report-incident"
  /\ \E profile \in ProfilesTable :
       /\ session = Some(profile.id)
       /\ user = Some(profile.id)
       /\ userProfile = Some(profile)
  /\ authEvents = <<>>
  /\ authEventCount = 0
  /\ loads = {}
  /\ loadCount = 1
  /\ isLoading = FALSE
  /\ profileError = Null
  /\ selectedLocation = Null
  /\ showForm = FALSE
  /\ formData = EmptyForm
  /\ photoPreviews = <<>>
  /\ isSubmitting = FALSE
  /\ clock = 0
  /\ submission = Null
  /\ submitCount = 0
  /\ steps = 0
  /\ uploads = {}
  /\ storage = {}
  /\ insertedReports = {}

\* a user action, counted
UserAction(Handler) ==
  /\ steps < MaxSteps
  /\ Handler
  /\ steps' = steps + 1
  /\ UNCHANGED nonPageVars

\* a step the specification does not count: a response of the backend or the auth service
Uncounted(Settles) ==
  /\ Settles
  /\ UNCHANGED steps
  /\ UNCHANGED nonPageVars

SubmitNext ==
  \/ \E location \in SelectableLocations : UserAction(handleLocationSelect(location))
  \/ UserAction(handleReportIncidentClick)
  \/ \E value \in Descriptions : UserAction(setDescription(value))
  \/ \E files \in FileLists : UserAction(handleFileSelect(files))
  \/ \E index \in 0..(PhotoLimit - 1) : UserAction(removePhoto(index))
  \/ UserAction(handleCancel)
  \/ UserAction(handleFormSubmit)
  \/ \E upload \in uploads : Uncounted(uploadFulfilled(upload))
  \/ \E upload \in uploads : Uncounted(uploadRejected(upload))
  \/ Uncounted(insertFulfilled)
  \/ Uncounted(insertRejected)

SpecSubmit == SubmitInit /\ [][SubmitNext]_vars

\* --- the specification of the session: the page as mounted, the first load in flight ---

AuthInit ==
  /\ SearchIdle
  /\ LocIdle
  /\ MyIdle
  /\ HomeIdle
  /\ AroundIdle
  /\ LatestIdle
  /\ FormatIdle
  /\ LocateIdle
  /\ DashIdle
  /\ SelectorIdle
  /\ route = "/report-incident"
  /\ session \in {Null} \cup {Some(id) : id \in Users}
  /\ authEvents = <<>>
  /\ authEventCount = 0
  /\ loads = {[id |-> 1, stage |-> "getSession", userId |-> Null]}
  /\ loadCount = 1
  /\ user = Null
  /\ userProfile = Null
  /\ isLoading = TRUE
  /\ profileError = Null
  /\ selectedLocation = Null
  /\ showForm = FALSE
  /\ formData = EmptyForm
  /\ photoPreviews = <<>>
  /\ isSubmitting = FALSE
  /\ clock = 0
  /\ submission = Null
  /\ submitCount = 0
  /\ steps = 0
  /\ uploads = {}
  /\ storage = {}
  /\ insertedReports = {}

AuthNext ==
  \/ \E load \in loads : \E result \in GetSessionResults :
       Uncounted(getSessionResolves(load, result))
  \/ \E load \in loads : load.stage = "profiles" /\
       \E result \in ProfileResults(load.userId[1]) :
         Uncounted(profileResolves(load, result))
  \/ Uncounted(onAuthStateChange)
  \/ \E id \in Users : Uncounted(signIn(id))
  \/ Uncounted(tokenRefreshed)
  \/ Uncounted(signOut)
  \/ \E location \in SelectableLocations : Uncounted(handleLocationSelect(location))
  \/ Uncounted(handleReportIncidentClick)
  \/ \E value \in Descriptions : Uncounted(setDescription(value))
  \/ Uncounted(handleCancel)
  \/ submitCount < MaxSubmissions /\ Uncounted(handleFormSubmit)
  \/ Uncounted(insertFulfilled)
  \/ Uncounted(insertRejected)

SpecAuth == AuthInit /\ [][AuthNext]_vars

\* --- properties of the submission ---

\* a step in which the upload of a photo the handler is awaiting fails
UploadFailureStep ==
  \E upload \in uploads :
    /\ Awaited(upload)
    /\ upload \notin uploads'
    /\ upload.filePath \notin storage'

\* a row is inserted in this step
InsertStep == insertedReports' # insertedReports

\* C8: when the upload of a selected photo fails in handleFormSubmit, no report row is
\* inserted (not in the failing step, and not later: the handler has ended and only a
\* handler whose uploads are all stored inserts), isSubmitting is false again, and the
\* description, the selected photos, the selected location and the visibility of the
\* form are what they were.
C8_UploadFailureKeepsForm ==
  [][ /\ UploadFailureStep =>
           /\ insertedReports' = insertedReports
           /\ submission' = Null
           /\ isSubmitting' = FALSE
           /\ formData'.description = formData.description
           /\ formData'.photos = formData.photos
           /\ photoPreviews' = photoPreviews
           /\ selectedLocation' = selectedLocation
           /\ showForm' = showForm
      /\ InsertStep =>
           /\ submission # Null
           /\ \A i \in 1..Len(submission[1].filePaths) :
                submission[1].filePaths[i] \in storage
    ]_vars

\* an upload failed while another upload of the same submission was still pending: the
\* handler has ended, the form still shows its two photos and its description
C8_Witness ==
  /\ submission = Null
  /\ submitCount > 0
  /\ uploads # {}
  /\ insertedReports = {}
  /\ ~isSubmitting
  /\ showForm
  /\ Len(formData.photos) = 2
  /\ Trim(formData.description) # ""

\* C9: a row is inserted only when every photo of the submission has been uploaded
\* successfully and no upload is pending; its photo_urls holds one public URL per
\* selected photo, in selection order, the key of photo i being made of the profile id,
\* a timestamp, the index i and the extension of the photo's name; the keys of one
\* submission are pairwise distinct.
C9_InsertAfterUploads ==
  [][ InsertStep =>
        /\ submission # Null
        /\ \A upload \in uploads : upload.no # submission[1].no
        /\ \A row \in insertedReports' \ insertedReports :
             LET photos == submission[1].formData.photos
                 urls == row.photo_urls
             IN  /\ Len(urls) = Len(photos)
                 /\ \A i \in 1..Len(photos) :
                      /\ urls[i].bucket = "report-images"
                      /\ urls[i].path \in storage
                      /\ urls[i].path.profileId = row.profile_id
                      /\ urls[i].path.timestamp < clock
                      /\ urls[i].path.index = i - 1
                      /\ urls[i].path.extension = FileExt(photos[i])
                 /\ \A i, j \in 1..Len(urls) : i # j => urls[i].path # urls[j].path
    ]_vars

\* a row was inserted for two photos with the same extension: their keys differ in the
\* index only
C9_Witness ==
  \E row \in insertedReports :
    /\ Len(row.photo_urls) = 2
    /\ row.photo_urls[1].path.extension = row.photo_urls[2].path.extension
    /\ row.photo_urls[1].path.timestamp = row.photo_urls[2].path.timestamp
    /\ row.photo_urls[1].path \in storage
    /\ row.photo_urls[2].path \in storage

\* --- properties of the session ---

\* handleFormSubmit passes its checks and starts a submission in this step
SubmitStep == submission = Null /\ submission' # Null

\* C10: a submission is started (and so a row inserted, with the profile_id the handler
\* holds) only while the session user is set, no profile error is set, the page is not
\* loading (isLoading) and the loaded profile is the profile of that user, under every
\* interleaving of the mount-time load with the auth state changes.
C10_SubmitWithSessionProfile ==
  [][ SubmitStep =>
        /\ user # Null
        /\ profileError = Null
        /\ ~isLoading
        /\ submission'[1].userProfile.id = user[1]
    ]_vars

\* ---------------------------------------------------------------------------
\* The My Reports page: the version that validates the session
\* (loadProfileAndValidateSession) and app/my-reports/page.tsx (getUserProfile)
\* ---------------------------------------------------------------------------

\* the reports table as My Reports reads it
MyReportsTable ==
  { [id |-> 1, profile_id |-> "userA", created_at |-> 1],
    [id |-> 2, profile_id |-> "userA", created_at |-> 2],
    [id |-> 3, profile_id |-> "userB", created_at |-> 2] }

\* what sessionStorage.getItem('userProfile') can hold: nothing, a string that
\* JSON.parse rejects, or the JSON of a profile
StoredProfiles ==
  {Null, Some([parses |-> FALSE, profile |-> Null])}
    \cup {Some([parses |-> TRUE, profile |-> Some(p)]) : p \in ProfilesTable}

\* what supabase.auth.getSession() resolves to on My Reports
MyGetSessionResults ==
  { [session |-> mySession, error |-> FALSE], [session |-> Null, error |-> TRUE] }

\* from('reports').select('*').eq('profile_id', profileId).order('created_at', desc)
ReportsOfProfile(profileId) ==
  {[data |-> Some(s), error |-> FALSE] :
     s \in QueryOrders({row \in MyReportsTable : row.profile_id = profileId})}
    \cup {[data |-> Null, error |-> TRUE]}

\* the query of fetchReports / fetchUserReports is sent
IssueReportQuery(profileId, validated) ==
  reportQueries' = Append(reportQueries, [profile_id |-> profileId,
                                          validated |-> validated])

MyInit ==
  /\ SearchIdle
  /\ LocIdle
  /\ PageIdle
  /\ HomeIdle
  /\ AroundIdle
  /\ LatestIdle
  /\ FormatIdle
  /\ LocateIdle
  /\ DashIdle
  /\ SelectorIdle
  /\ myImpl \in {"validated", "app"}
  /\ storedProfile \in StoredProfiles
  /\ mySession \in {Null} \cup {Some(id) : id \in Users}
  /\ myPc = "mount"
  /\ myReports = <<>>
  /\ myLoading = TRUE
  /\ myError = Null
  /\ myProfile = Null
  /\ validatedUser = Null
  /\ reportQueries = <<>>
  /\ myRedirect = Null
  /\ myRoute = "/my-reports"

\* the mount effect of the validating version, up to its first await
loadProfileAndValidateSession ==
  /\ myImpl = "validated"
  /\ myPc = "mount"
  /\ IF storedProfile = Null
     THEN /\ myError' = Some("No user profile found. Please return to dashboard.")
          /\ myLoading' = FALSE
          /\ myPc' = "done"
          /\ UNCHANGED myProfile
     ELSE IF ~storedProfile[1].parses
     THEN /\ myError' = Some("Error loading user profile. Please return to dashboard.")
          /\ myLoading' = FALSE
          /\ myPc' = "done"
          /\ UNCHANGED myProfile
     ELSE /\ myProfile' = storedProfile[1].profile
          /\ myLoading' = TRUE
          /\ myError' = Null
          /\ myPc' = "getSession"
  /\ UNCHANGED <<myImpl, storedProfile, mySession, myReports, validatedUser,
                 reportQueries, myRedirect, myRoute>>
  /\ UNCHANGED nonMyVars

\* await supabase.auth.getSession() of loadProfileAndValidateSession returns
validateSessionResolves(result) ==
  /\ myImpl = "validated"
  /\ myPc = "getSession"
  /\ IF result.error \/ result.session = Null
     THEN /\ myError' = Some("Session expired. Please log in again.")
          /\ myRedirect' = Some("/login")
          /\ myPc' = "done"
          /\ UNCHANGED <<storedProfile, validatedUser, reportQueries>>
     ELSE IF result.session[1] # myProfile[1].id
     THEN /\ myError' = Some("Profile mismatch. Please log in again.")
          /\ storedProfile' = Null
          /\ myRedirect' = Some("/login")
          /\ validatedUser' = result.session
          /\ myPc' = "done"
          /\ UNCHANGED reportQueries
     ELSE /\ validatedUser' = result.session
          /\ IssueReportQuery(myProfile[1].id, result.session)
          /\ myPc' = "reports"
          /\ UNCHANGED <<storedProfile, myError, myRedirect>>
  /\ UNCHANGED <<myImpl, mySession, myReports, myLoading, myProfile, myRoute>>
  /\ UNCHANGED nonMyVars

\* the mount effect of app/my-reports/page.tsx: getUserProfile, then fetchUserReports
\* up to its await
getUserProfile ==
  /\ myImpl = "app"
  /\ myPc = "mount"
  /\ IF storedProfile = Null
     THEN /\ myRoute' = "/"
          /\ myPc' = "done"
          /\ UNCHANGED <<myProfile, myError, myLoading, reportQueries>>
     ELSE IF ~storedProfile[1].parses
     THEN /\ myError' = Some("Failed to load user profile")
          /\ myPc' = "done"
          /\ UNCHANGED <<myProfile, myRoute, myLoading, reportQueries>>
     ELSE /\ myProfile' = storedProfile[1].profile
          /\ myLoading' = TRUE
          /\ myError' = Null
          /\ IssueReportQuery(storedProfile[1].profile[1].id, validatedUser)
          /\ myPc' = "reports"
          /\ UNCHANGED myRoute
  /\ UNCHANGED <<myImpl, storedProfile, mySession, myReports, validatedUser, myRedirect>>
  /\ UNCHANGED nonMyVars

\* the report query of fetchReports / fetchUserReports returns
reportQueryResolves(result) ==
  /\ myPc = "reports"
  /\ IF result.error
     THEN /\ myError' = Some(IF myImpl = "validated"
                             THEN "Failed to load reports. Please try again."
                             ELSE "Failed to load your reports. Please try again.")
          /\ UNCHANGED myReports
     ELSE /\ myReports' = result.data[1]
          /\ UNCHANGED myError
  /\ myLoading' = FALSE
  /\ myPc' = "done"
  /\ UNCHANGED <<myImpl, storedProfile, mySession, myProfile, validatedUser,
                 reportQueries, myRedirect, myRoute>>
  /\ UNCHANGED nonMyVars

\* setTimeout(() => router.push('/login'), 2000) comes due
redirectTimerFires ==
  /\ myRedirect # Null
  /\ myRoute' = myRedirect[1]
  /\ myRedirect' = Null
  /\ UNCHANGED <<myImpl, storedProfile, mySession, myPc, myReports, myLoading, myError,
                 myProfile, validatedUser, reportQueries>>
  /\ UNCHANGED nonMyVars

MyNext ==
  \/ loadProfileAndValidateSession
  \/ \E result \in MyGetSessionResults : validateSessionResolves(result)
  \/ getUserProfile
  \/ /\ myPc = "reports"
     /\ \E result \in ReportsOfProfile(reportQueries[Len(reportQueries)].profile_id) :
          reportQueryResolves(result)
  \/ redirectTimerFires

SpecMy == MyInit /\ [][MyNext]_vars

\* the stored profile is not the profile of the session's user
ProfileMismatch ==
  /\ myProfile # Null
  /\ mySession # Null
  /\ mySession[1] # myProfile[1].id

\* C11: My Reports issues a report query for a stored profile id P only after
\* getSession has returned a session whose user id is P; when the session's user is
\* not P the load ends with the stored profile removed, an error set, a redirect to
\* the login page scheduled and no report query issued.
C11_QueryOnlyForValidatedSession ==
  /\ \A i \in 1..Len(reportQueries) :
       reportQueries[i].validated = Some(reportQueries[i].profile_id)
  /\ (myPc = "done" /\ ProfileMismatch) =>
       /\ storedProfile = Null
       /\ myError # Null
       /\ (myRedirect = Some("/login") \/ myRoute = "/login")
       /\ reportQueries = <<>>

\* C18: when the mount-time load of My Reports has ended on a failure path (an error
\* is set), loading is false, so that the error message is rendered instead of the
\* spinner.
C18_FailureEndsLoading ==
  (myPc = "done" /\ myError # Null) => ~myLoading

\* ---------------------------------------------------------------------------
\* The home page (HomePage)
\* ---------------------------------------------------------------------------

MaxProfileFetches == 3  \* invocations of fetchProfile in one behaviour

HomeMounted == homeRoute = "/"

\* the render function: the Questionnaire is returned when neither loading nor
\* redirecting, a user is set and profile is null
QuestionnaireShown ==
  /\ HomeMounted
  /\ ~(homeLoading \/ homeRedirecting)
  /\ homeUser # Null
  /\ homeProfile = Null

\* the render function: a dashboard is returned
DashboardShown ==
  /\ HomeMounted
  /\ ~(homeLoading \/ homeRedirecting)
  /\ homeUser # Null
  /\ homeProfile # Null

HomeInit ==
  /\ SearchIdle
  /\ LocIdle
  /\ PageIdle
  /\ MyIdle
  /\ AroundIdle
  /\ LatestIdle
  /\ FormatIdle
  /\ LocateIdle
  /\ DashIdle
  /\ SelectorIdle
  /\ homeSession \in {Null} \cup {Some(id) : id \in Users}
  /\ homeEvents = <<>>
  /\ homeEventCount = 0
  /\ sessionCheck = TRUE
  /\ profileFetches = {}
  /\ profileFetchCount = 0
  /\ homeUser = Null
  /\ homeProfile = Null
  /\ homeLoading = TRUE
  /\ homeRedirecting = FALSE
  /\ homeRoute = "/"

\* fetchProfile(userId) up to its await
StartProfileFetch(userId) ==
  /\ profileFetches' = profileFetches \cup {[id |-> profileFetchCount + 1, userId |-> userId]}
  /\ profileFetchCount' = profileFetchCount + 1

\* supabase.auth.getSession().then(...) of the mount effect
sessionCheckResolves ==
  /\ HomeMounted
  /\ sessionCheck
  /\ sessionCheck' = FALSE
  /\ homeUser' = homeSession
  /\ IF homeSession # Null
     THEN /\ StartProfileFetch(homeSession[1])
          /\ UNCHANGED <<homeLoading, homeRedirecting, homeRoute>>
     ELSE /\ homeLoading' = FALSE
          /\ homeRedirecting' = TRUE
          /\ homeRoute' = "/login"
          /\ UNCHANGED <<profileFetches, profileFetchCount>>
  /\ UNCHANGED <<homeSession, homeEvents, homeEventCount, homeProfile>>
  /\ UNCHANGED nonHomeVars

\* the callback given to supabase.auth.onAuthStateChange
homeAuthStateChange ==
  /\ HomeMounted
  /\ homeEvents # <<>>
  /\ Head(homeEvents).session # Null => profileFetchCount < MaxProfileFetches
  /\ LET eventSession == Head(homeEvents).session
     IN  /\ homeUser' = eventSession
         /\ IF eventSession # Null
            THEN /\ StartProfileFetch(eventSession[1])
                 /\ homeRedirecting' = FALSE
                 /\ UNCHANGED <<homeProfile, homeLoading, homeRoute>>
            ELSE /\ homeProfile' = Null
                 /\ homeLoading' = FALSE
                 /\ homeRedirecting' = TRUE
                 /\ homeRoute' = "/login"
                 /\ UNCHANGED <<profileFetches, profileFetchCount>>
  /\ homeEvents' = Tail(homeEvents)
  /\ UNCHANGED <<homeSession, homeEventCount, sessionCheck>>
  /\ UNCHANGED nonHomeVars

\* the profiles query of one invocation of fetchProfile returns
fetchProfileResolves(fetch, result) ==
  /\ HomeMounted
  /\ fetch \in profileFetches
  /\ profileFetches' = profileFetches \ {fetch}
  /\ IF result.error # Null /\ result.error # Some("PGRST116")
     THEN UNCHANGED homeProfile
     ELSE homeProfile' = result.data
  /\ homeLoading' = FALSE
  /\ UNCHANGED <<homeSession, homeEvents, homeEventCount, sessionCheck, profileFetchCount,
                 homeUser, homeRedirecting, homeRoute>>
  /\ UNCHANGED nonHomeVars

\* the Questionnaire calls onComplete
handleProfileComplete ==
  /\ QuestionnaireShown
  /\ profileFetchCount < MaxProfileFetches
  /\ StartProfileFetch(homeUser[1])
  /\ UNCHANGED <<homeSession, homeEvents, homeEventCount, sessionCheck, homeUser, homeProfile,
                 homeLoading, homeRedirecting, homeRoute>>
  /\ UNCHANGED nonHomeVars

\* the Sign Out button of the dashboard: supabase.auth.signOut()
handleSignOut ==
  /\ DashboardShown
  /\ homeEventCount < MaxAuthEvents
  /\ homeSession # Null
  /\ homeSession' = Null
  /\ homeEvents' = Append(homeEvents, [event |-> "SIGNED_OUT", session |-> Null])
  /\ homeEventCount' = homeEventCount + 1
  /\ UNCHANGED <<sessionCheck, profileFetches, profileFetchCount, homeUser, homeProfile,
                 homeLoading, homeRedirecting, homeRoute>>
  /\ UNCHANGED nonHomeVars

\* the auth service: a sign-in (this tab or another) replaces the session
homeSignIn(id) ==
  /\ HomeMounted
  /\ homeEventCount < MaxAuthEvents
  /\ homeSession' = Some(id)
  /\ homeEvents' = Append(homeEvents, [event |-> "SIGNED_IN", session |-> Some(id)])
  /\ homeEventCount' = homeEventCount + 1
  /\ UNCHANGED <<sessionCheck, profileFetches, profileFetchCount, homeUser, homeProfile,
                 homeLoading, homeRedirecting, homeRoute>>
  /\ UNCHANGED nonHomeVars

HomeNext ==
  \/ sessionCheckResolves
  \/ homeAuthStateChange
  \/ \E fetch \in profileFetches : \E result \in ProfileResults(fetch.userId) :
       fetchProfileResolves(fetch, result)
  \/ handleProfileComplete
  \/ handleSignOut
  \/ \E id \in Users : homeSignIn(id)

SpecHome == HomeInit /\ [][HomeNext]_vars

\* the principal the page holds has a row in the profiles table
HasProfileRow == \E p \in ProfilesTable : p.id = homeUser[1]

\* C12: the questionnaire is shown only when the signed-in principal has no profile
\* row: a principal with a profile row is never shown it, whatever the profile fetch
\* returned.
C12_QuestionnaireOnlyWithoutProfile ==
  QuestionnaireShown => ~HasProfileRow

\* --- properties of the inserted rows ---

\* C13: the report-incident submission inserts a row only for a profile whose role is
\* Citizen.
C13_OnlyCitizensInsert ==
  \A row \in insertedReports :
    \A p \in ProfilesTable : p.id = row.profile_id => p.role = "Citizen"

\* C14: every inserted row has latitude and longitude both present or both absent;
\* the form is visible only while a location is selected, so every inserted row has
\* both.
C14_InsertedRowsHaveCoordinates ==
  /\ showForm => selectedLocation # Null
  /\ \A row \in insertedReports :
       /\ (row.latitude = Null) <=> (row.longitude = Null)
       /\ row.latitude # Null
       /\ row.longitude # Null

\* a submission with photos has inserted its row, with the coordinates of the
\* selected location, and has closed the form and cleared the selection
C14_Witness ==
  /\ ~showForm
  /\ selectedLocation = Null
  /\ \E row \in insertedReports :
       /\ row.photo_urls # <<>>
       /\ \E location \in SelectableLocations :
            /\ row.latitude = Some(location.lat)
            /\ row.longitude = Some(location.lng)

(***************************************************************************)
(* The Reports Around Me page.  initializeLocation and fetchNearbyReports *)
(* are asynchronous: an invocation runs to its await, and a later step    *)
(* delivers the outcome and runs the rest.  Nothing cancels an invocation *)
(* in flight.  A handler uses the state of the render it was created in.  *)
(***************************************************************************)
MaxClicks == 3          \* button clicks in one behaviour

\* the radius buttons: [2, 5, 10, 15].map(...)
RadiusOptions == {2, 5, 10, 15}

\* the rows of the reports table while the page is open
AroundStore ==
  {ReportRow(<<Some(0), Some(0)>>, 2, "pending"),
   ReportRow(<<Some(0), Some(2 * GridStep)>>, 1, "pending"),
   ReportRow(<<Null, Some(0)>>, 2, "pending")}

\* the locations getCurrentLocationWithGoogleMaps can resolve with
AroundPositions == {[latitude |-> 0, longitude |-> 0],
                    [latitude |-> 0, longitude |-> 2 * GridStep]}

\* fetchNearbyReports(location) up to its await, called with the radius of
\* the render its caller was created in: setLoading(true), setError(null),
\* and the query is sent
StartFetch(location, radius, init) ==
  /\ raLoading' = TRUE
  /\ raError' = Null
  /\ raFetches' = raFetches \cup {[id |-> raStarted + 1, location |-> location,
                                   radius |-> radius, init |-> init]}
  /\ raStarted' = raStarted + 1
  /\ raRequests' = raRequests + 1

\* the state after the mount effect has called initializeLocation()
AroundInit ==
  /\ SearchIdle
  /\ LocIdle
  /\ PageIdle
  /\ MyIdle
  /\ HomeIdle
  /\ LatestIdle
  /\ FormatIdle
  /\ LocateIdle
  /\ DashIdle
  /\ SelectorIdle
  /\ raUserLocation = Null
  /\ raReports = <<>>
  /\ raLoading = TRUE
  /\ raLocationLoading = TRUE
  /\ raError = Null
  /\ raRadius = 5
  /\ raLocating = {[id |-> 1, radius |-> 5]}
  /\ raFetches = {}
  /\ raStarted = 1
  /\ raClicks = 0
  /\ raRequests = 1
  /\ raLast = Null

\* Try Again: initializeLocation() up to its await.  The button is in the
\* error card, which is rendered when error is set.
initializeLocation ==
  /\ raError # Null
  /\ raClicks < MaxClicks
  /\ raClicks' = raClicks + 1
  /\ raLocationLoading' = TRUE
  /\ raError' = Null
  /\ raLocating' = raLocating \cup {[id |-> raStarted + 1, radius |-> raRadius]}
  /\ raStarted' = raStarted + 1
  /\ raRequests' = raRequests + 1
  /\ UNCHANGED nonAroundVars
  /\ UNCHANGED <<raUserLocation, raReports, raLoading, raRadius, raFetches, raLast>>

\* getCurrentLocationWithGoogleMaps() resolves: setUserLocation(location) and
\* fetchNearbyReports(location) up to its await
locationResolves(init, location) ==
  /\ init \in raLocating
  /\ raUserLocation' = Some(location)
  /\ raLocating' = raLocating \ {init}
  /\ StartFetch(location, init.radius, init.id)
  /\ UNCHANGED nonAroundVars
  /\ UNCHANGED <<raReports, raLocationLoading, raRadius, raClicks, raLast>>

\* getCurrentLocationWithGoogleMaps() rejects: the catch and the finally of
\* initializeLocation
locationRejects(init) ==
  /\ init \in raLocating
  /\ raLocating' = raLocating \ {init}
  /\ raError' = Some("err.message")
  /\ raLoading' = FALSE
  /\ raLocationLoading' = FALSE
  /\ raLast' = Some([id |-> init.id, reports |-> Null, error |-> raError'])
  /\ UNCHANGED nonAroundVars
  /\ UNCHANGED <<raUserLocation, raReports, raRadius, raFetches, raStarted, raClicks,
                 raRequests>>

\* the finally of initializeLocation, when the fetch that completes is the
\* one it awaits
AfterFetch(fetch) ==
  raLocationLoading' = IF fetch.init # 0 THEN FALSE ELSE raLocationLoading

\* the query of an invocation of fetchNearbyReports returns its rows:
\* setReports(reportsWithDistance), setLoading(false)
fetchResolves(fetch) ==
  /\ fetch \in raFetches
  /\ raFetches' = raFetches \ {fetch}
  /\ \E data \in BoundingBoxQuery(AroundStore, fetch.location, fetch.radius, "", 0) :
       raReports' = ReportsWithDistance(data, fetch.location, fetch.radius)
  /\ raLoading' = FALSE
  /\ AfterFetch(fetch)
  /\ raLast' = Some([id |-> fetch.id, reports |-> Some(raReports'), error |-> Null])
  /\ UNCHANGED nonAroundVars
  /\ UNCHANGED <<raUserLocation, raError, raRadius, raLocating, raStarted, raClicks,
                 raRequests>>

\* the query of an invocation of fetchNearbyReports reports an error:
\* setError(err.message), setLoading(false)
fetchRejects(fetch) ==
  /\ fetch \in raFetches
  /\ raFetches' = raFetches \ {fetch}
  /\ raError' = Some("fetchError.message")
  /\ raLoading' = FALSE
  /\ AfterFetch(fetch)
  /\ raLast' = Some([id |-> fetch.id, reports |-> Null, error |-> raError'])
  /\ UNCHANGED nonAroundVars
  /\ UNCHANGED <<raUserLocation, raReports, raRadius, raLocating, raStarted, raClicks,
                 raRequests>>

\* Refresh: refreshReports().  The button is disabled while loading or
\* locationLoading.
refreshReports ==
  /\ ~(raLoading \/ raLocationLoading)
  /\ raClicks < MaxClicks
  /\ raClicks' = raClicks + 1
  /\ IF raUserLocation # Null
       THEN StartFetch(raUserLocation[1], raRadius, 0)
       ELSE UNCHANGED <<raLoading, raError, raFetches, raStarted, raRequests>>
  /\ UNCHANGED nonAroundVars
  /\ UNCHANGED <<raUserLocation, raReports, raLocationLoading, raRadius, raLocating, raLast>>

\* the radius buttons are rendered when userLocation is set and disabled
\* while loading; "Expand search" is in the empty list, which is rendered when
\* !loading && !error && userLocation
RadiusButtons ==
  IF raUserLocation = Null \/ raLoading THEN {}
  ELSE RadiusOptions
         \cup (IF raError = Null /\ raReports = <<>> THEN {raRadius + 5} ELSE {})

\* changeRadius(newRadius): setRadius(newRadius), then fetchNearbyReports of
\* this render, whose radius is the one before the click
changeRadius(newRadius) ==
  /\ newRadius \in RadiusButtons
  /\ raClicks < MaxClicks
  /\ raClicks' = raClicks + 1
  /\ raRadius' = newRadius
  /\ StartFetch(raUserLocation[1], raRadius, 0)
  /\ UNCHANGED nonAroundVars
  /\ UNCHANGED <<raUserLocation, raReports, raLocationLoading, raLocating, raLast>>

AroundNext ==
  \/ initializeLocation
  \/ \E init \in raLocating : \E location \in AroundPositions :
       locationResolves(init, location)
  \/ \E init \in raLocating : locationRejects(init)
  \/ \E fetch \in raFetches : fetchResolves(fetch)
  \/ \E fetch \in raFetches : fetchRejects(fetch)
  \/ refreshReports
  \/ \E newRadius \in RadiusOptions \cup {raRadius + 5} : changeRadius(newRadius)

SpecAround == AroundInit /\ [][AroundNext]_vars

(***************************************************************************)
(* Claims about the Reports Around Me page, checked under SpecAround.     *)
(***************************************************************************)
\* nothing is in flight
AroundQuiescent == raLocating = {} /\ raFetches = {}

\* two invocations are in flight at once
AroundOverlap == Cardinality(raLocating) + Cardinality(raFetches) >= 2

\* C15: invocations of the page can overlap, and once all of them have
\* completed, the page shows what the one that completed last wrote: after a
\* successful last fetch its list with no error, after a failed last one its
\* error, and loading is false either way.
C15_LastCompletionWins ==
  (AroundQuiescent /\ raLast # Null) =>
    /\ ~raLoading
    /\ raLast[1].error # Null => raError = raLast[1].error
    /\ raLast[1].reports # Null =>
         /\ raReports = raLast[1].reports[1]
         /\ raError = Null

\* a location acquisition or a report query fails
AroundFailureStep ==
  \/ \E init \in raLocating : locationRejects(init)
  \/ \E fetch \in raFetches : fetchRejects(fetch)

\* C16: a failed location acquisition or report query leaves error set,
\* loading and locationLoading false and the displayed reports as they were,
\* and while the error is displayed a network request is issued only by a
\* button click.
C16_FailureLeavesErrorState ==
  /\ [][AroundFailureStep =>
          /\ raError' # Null
          /\ ~raLoading'
          /\ ~raLocationLoading'
          /\ raReports' = raReports]_vars
  /\ [][(raError # Null /\ raRequests' # raRequests) => raClicks' # raClicks]_vars

(***************************************************************************)
(* The Latest Reports page.  fetchLatestReports is asynchronous: a call   *)
(* sends the query, and a later step delivers the outcome and runs the    *)
(* rest.  The page calls it at mount and from its two buttons.            *)
(***************************************************************************)
MaxLatestClicks == 2    \* clicks on Try Again and Refresh Reports in one behaviour

\* .limit(3)
LatestLimit == 3

\* the rows the reports table can hold: two of them share a creation time
LatestRows ==
  {[id |-> "r1", created_at |-> 1], [id |-> "r2", created_at |-> 2],
   [id |-> "r3", created_at |-> 3], [id |-> "r4", created_at |-> 3]}

\* from('reports').select(...).order('created_at', {ascending: false}).limit(3)
LatestQuery(rows) == {ApplyLimit(s, LatestLimit) : s \in QueryOrders(rows)}

\* the state after the mount effect has called fetchLatestReports()
LatestInit ==
  /\ SearchIdle
  /\ LocIdle
  /\ PageIdle
  /\ MyIdle
  /\ HomeIdle
  /\ AroundIdle
  /\ FormatIdle
  /\ LocateIdle
  /\ DashIdle
  /\ SelectorIdle
  /\ ltStore \in SUBSET LatestRows
  /\ ltReports = <<>>
  /\ ltLoading = TRUE
  /\ ltError = Null
  /\ ltIsLoaded = FALSE
  /\ ltPending = 1
  /\ ltClicks = 0

\* setTimeout(() => setIsLoaded(true), 100)
loadedTimerFires ==
  /\ ~ltIsLoaded
  /\ ltIsLoaded' = TRUE
  /\ UNCHANGED nonLatestVars
  /\ UNCHANGED <<ltStore, ltReports, ltLoading, ltError, ltPending, ltClicks>>

\* Try Again is rendered when error is set and Refresh Reports when loading
\* is false
RetryAvailable == ltError # Null \/ ~ltLoading

\* a click on Try Again or Refresh Reports: fetchLatestReports() up to its
\* await, which sets no state
fetchLatestReports ==
  /\ RetryAvailable
  /\ ltClicks < MaxLatestClicks
  /\ ltClicks' = ltClicks + 1
  /\ ltPending' = ltPending + 1
  /\ UNCHANGED nonLatestVars
  /\ UNCHANGED <<ltStore, ltReports, ltLoading, ltError, ltIsLoaded>>

\* the query returns its rows: setReports(data || []), setLoading(false)
latestResolves(data) ==
  /\ ltPending > 0
  /\ ltPending' = ltPending - 1
  /\ ltReports' = data
  /\ ltLoading' = FALSE
  /\ UNCHANGED nonLatestVars
  /\ UNCHANGED <<ltStore, ltError, ltIsLoaded, ltClicks>>

\* the query reports an error: setError('Failed to fetch latest reports.
\* Please try again.'), setLoading(false)
latestRejects ==
  /\ ltPending > 0
  /\ ltPending' = ltPending - 1
  /\ ltError' = Some("Failed to fetch latest reports. Please try again.")
  /\ ltLoading' = FALSE
  /\ UNCHANGED nonLatestVars
  /\ UNCHANGED <<ltStore, ltReports, ltIsLoaded, ltClicks>>

LatestNext ==
  \/ loadedTimerFires
  \/ fetchLatestReports
  \/ \E data \in LatestQuery(ltStore) : latestResolves(data)
  \/ latestRejects

SpecLatest == LatestInit /\ [][LatestNext]_vars

(***************************************************************************)
(* Claims about the Latest Reports page, checked under SpecLatest.        *)
(***************************************************************************)
\* the list is rendered (when !error) and shows at most three reports, newest first
LatestDisplayed(reports) ==
  /\ ltError' = Null
  /\ ltReports' = reports
  /\ Len(reports) <= LatestLimit
  /\ \A i, j \in 1..Len(reports) : i < j => reports[i].created_at >= reports[j].created_at

\* C17: after a failed fetch the user can retry, and when a retry succeeds
\* the page has no error and displays the fetched reports, at most three and
\* newest first.
C17_RetryRecovers ==
  /\ [](ltError # Null /\ ltPending = 0 /\ ltClicks < MaxLatestClicks => ENABLED fetchLatestReports)
  /\ [][\A data \in LatestQuery(ltStore) :
          (ltError # Null /\ latestResolves(data)) => LatestDisplayed(data)]_vars

(***************************************************************************)
(* More claims about the proximity search, checked under SpecSearch.      *)
(***************************************************************************)
\* C19: fetchReportsNearLocation called twice with the same centre, radius,
\* status and limit on an unchanged table returns the same reports in the
\* same order, also when reports have equal distance or equal creation time.
C19_SearchIdempotent ==
  call = "fetchReportsNearLocation twice" => repeatResult = nearResult

\* C20: no report whose latitude or longitude is null is returned by
\* fetchReportsNearLocation, by fetchReportsInBoundingBox or put into the
\* displayed list by fetchNearbyReports.
C20_NoNullCoordinatesReturned ==
  /\ \A i \in 1..Len(nearResult) : HasCoordinates(nearResult[i])
  /\ \A i \in 1..Len(boxResult) : HasCoordinates(boxResult[i])
  /\ \A i \in 1..Len(aroundReports) : HasCoordinates(aroundReports[i])

\* C20 witness: the table holds a report without coordinates at the centre's
\* city, and fetchReportsInBoundingBox returned the other report.
C20_Witness ==
  /\ call = "fetchReportsInBoundingBox"
  /\ \E row \in dbReports : ~HasCoordinates(row)
  /\ Len(boxResult) = 1
  /\ Cardinality(dbReports) = 2

\* the page shows its list: nothing is loading or in flight and no error is set
AroundIdlePage ==
  /\ ~raLoading
  /\ ~raLocationLoading
  /\ raError = Null
  /\ AroundQuiescent
  /\ raUserLocation # Null

\* the lists a search around the displayed location with the displayed radius can return
SearchWithDisplayedRadius ==
  {ReportsWithDistance(data, raUserLocation[1], raRadius) :
     data \in BoundingBoxQuery(AroundStore, raUserLocation[1], raRadius, "", 0)}

\* C25: when the Reports Around Me page is idle, every displayed report is
\* within the displayed radius and the list is what a search with that
\* radius returns; after changeRadius(n) the list was fetched with radius n.
C25_ListMatchesDisplayedRadius ==
  AroundIdlePage =>
    /\ \A i \in 1..Len(raReports) : raReports[i].distance <= raRadius * 1000
    /\ raReports \in SearchWithDisplayedRadius

\* C27: every inserted report has a location_string derived from the same
\* selected location as its latitude, longitude and address, also when the
\* user selects another map position after the form was opened.
C27_LocationStringMatchesCoordinates ==
  \A row \in insertedReports :
    \E location \in SelectableLocations :
      /\ row.location_string = LocationString(location)
      /\ row.latitude = Some(location.lat)
      /\ row.longitude = Some(location.lng)
      /\ row.address = location.address

\* a selection of files that would bring the number of photos above the limit
OverLimitSelection(files) ==
  /\ handleFileSelect(files)
  /\ Len(formData.photos) + Len(SelectSeq(files, IsImage)) > PhotoLimit

\* C29: formData.photos holds at most 5 files, all of an image type, and
\* photoPreviews has the same length with entry i being the preview of photo
\* i; a selection that would bring the count above 5 changes neither list.
C29_PhotosWithinLimit ==
  /\ [](/\ Len(formData.photos) <= PhotoLimit
        /\ \A i \in 1..Len(formData.photos) : IsImage(formData.photos[i])
        /\ Len(photoPreviews) = Len(formData.photos)
        /\ \A i \in 1..Len(formData.photos) :
             photoPreviews[i] = createObjectURL(formData.photos[i]))
  /\ [][\A files \in FileLists :
          OverLimitSelection(files) => UNCHANGED <<formData, photoPreviews>>]_vars

\* C29 witness: the form holds five photos with their previews, the limit
\* being reached by several selections.
C29_Witness ==
  /\ showForm
  /\ Len(formData.photos) = PhotoLimit
  /\ Len(photoPreviews) = PhotoLimit

(***************************************************************************)
(* formatDistance, in the library and in the Reports Around Me page.  A   *)
(* distance is a number of ten-thousandths of a kilometre; a string is    *)
(* the tuple of its parts.                                                *)
(***************************************************************************)
MaxDistance == 12000    \* the largest argument, 1.2 km

\* one kilometre in the unit of the argument
OneKm == 10000

\* Math.round(distance * 1000): the nearest whole number of metres, a half going up
RoundMetres(distance) == (distance + 5) \div 10

\* distance.toFixed(1): the nearest number of tenths of a kilometre, a half
\* going up, printed as whole part, point and one digit
ToFixed1(distance) ==
  LET tenths == (distance + 500) \div 1000
  IN <<tenths \div 10, ".", tenths % 10>>

\* mutant: the metres cut off instead of rounded
formatDistance_Truncated(distance) ==
  IF distance < OneKm THEN <<distance \div 10, "m">>
  ELSE ToFixed1(distance) \o <<"km">>

\* formatDistance of the library
formatDistance(distance) ==
  IF distance < OneKm THEN <<RoundMetres(distance), "m">>
  ELSE ToFixed1(distance) \o <<"km">>

\* formatDistance of the Reports Around Me page
pageFormatDistance(distance) ==
  IF distance < OneKm THEN <<RoundMetres(distance), "m">>
  ELSE ToFixed1(distance) \o <<"km">>

FormatInit ==
  /\ SearchIdle
  /\ LocIdle
  /\ PageIdle
  /\ MyIdle
  /\ HomeIdle
  /\ AroundIdle
  /\ LatestIdle
  /\ LocateIdle
  /\ DashIdle
  /\ SelectorIdle
  /\ fmtDistance \in 0..MaxDistance
  /\ fmtLib = Null
  /\ fmtPage = Null

\* a call of the library's formatDistance
callFormatDistance ==
  /\ fmtLib = Null
  /\ fmtLib' = Some(formatDistance(fmtDistance))
  /\ UNCHANGED nonFormatVars
  /\ UNCHANGED <<fmtDistance, fmtPage>>

\* a call of the page's formatDistance
callPageFormatDistance ==
  /\ fmtPage = Null
  /\ fmtPage' = Some(pageFormatDistance(fmtDistance))
  /\ UNCHANGED nonFormatVars
  /\ UNCHANGED <<fmtDistance, fmtLib>>

FormatNext == callFormatDistance \/ callPageFormatDistance

SpecFormat == FormatInit /\ [][FormatNext]_vars

(***************************************************************************)
(* Claims about formatDistance, checked under SpecFormat.                 *)
(***************************************************************************)
\* text is the distance to the nearest metre with 'm' below one kilometre,
\* and to the nearest tenth of a kilometre with 'km' from one kilometre on
FormatsDistance(text, distance) ==
  IF distance < OneKm
  THEN /\ Len(text) = 2
       /\ text[2] = "m"
       /\ text[1] \in 0..1000
       /\ Abs(10 * text[1] - distance) <= 5
  ELSE /\ Len(text) = 4
       /\ text[4] = "km"
       /\ text[2] = "."
       /\ text[3] \in 0..9
       /\ Abs(1000 * (10 * text[1] + text[3]) - distance) <= 500

\* C24: formatDistance(d) is d rounded to whole metres followed by 'm' for
\* 0 <= d < 1 km and d rounded to one decimal followed by 'km' for d >= 1 km,
\* and the two copies return the same string for every d.
C24_FormatDistance ==
  /\ fmtLib # Null => FormatsDistance(fmtLib[1], fmtDistance)
  /\ fmtPage # Null => FormatsDistance(fmtPage[1], fmtDistance)
  /\ (fmtLib # Null /\ fmtPage # Null) => fmtLib = fmtPage

\* C24 witness: both copies were called on a distance just below one
\* kilometre that rounds to 1000 metres.
C24_Witness ==
  /\ fmtDistance = OneKm - 4
  /\ fmtLib = Some(<<1000, "m">>)
  /\ fmtPage = fmtLib

(***************************************************************************)
(* The text search of the Locate Specific Report page.  A text is the     *)
(* sequence of its characters.                                            *)
(***************************************************************************)
MaxSearches == 2        \* searches submitted in one behaviour
MaxTermLen == 2         \* characters typed into the search field

\* the characters the user types
TermChars == {"o", "O", "k", "_", " "}

SearchTerms == UNION {[1..n -> TermChars] : n \in 0..MaxTermLen}

\* the rows the reports table can hold
LocateRows ==
  {[id |-> "r1", location_string |-> <<"O", "k">>, address |-> Null, created_at |-> 1],
   [id |-> "r2", location_string |-> <<"k", "o">>, address |-> Some(<<"o", "a", "k">>),
    created_at |-> 2],
   [id |-> "r3", location_string |-> <<"o", "_">>, address |-> Null, created_at |-> 2]}

\* String.prototype.trim() returning the empty string
TrimsToEmpty(text) == \A i \in 1..Len(text) : text[i] = " "

\* the lower-case form of a character, as ILIKE compares
Lower(c) == IF c = "O" THEN "o" ELSE c

\* text ILIKE %term%: somewhere in text, each character of term matches the
\* character at its place; _ in the pattern matches any one character
ILikeContains(text, term) ==
  \E p \in 0..(Len(text) - Len(term)) :
    \A i \in 1..Len(term) :
      term[i] = "_" \/ Lower(text[p + i]) = Lower(term[i])

\* a column IS NULL makes the condition on it not true
ColumnILike(column, term) == column # Null /\ ILikeContains(column[1], term)

\* .or(`location_string.ilike.%${searchAddress}%,address.ilike.%${searchAddress}%`)
\* .order('created_at', {ascending: false})
TextSearchQuery(rows, term) ==
  QueryOrders({row \in rows :
                 \/ ColumnILike(Some(row.location_string), term)
                 \/ ColumnILike(row.address, term)})

\* the page with the user's profile loaded and the search form empty
LocateInit ==
  /\ SearchIdle
  /\ LocIdle
  /\ PageIdle
  /\ MyIdle
  /\ HomeIdle
  /\ AroundIdle
  /\ LatestIdle
  /\ FormatIdle
  /\ DashIdle
  /\ SelectorIdle
  /\ lsStore \in SUBSET LocateRows
  /\ lsSearchAddress = <<>>
  /\ lsReports = <<>>
  /\ lsIsSearching = FALSE
  /\ lsHasSearched = FALSE
  /\ lsPending = Null
  /\ lsQueries = 0

\* onChange of the search field
setSearchAddress(value) ==
  /\ lsSearchAddress' = value
  /\ UNCHANGED nonLocateVars
  /\ UNCHANGED <<lsStore, lsReports, lsIsSearching, lsHasSearched, lsPending, lsQueries>>

\* the Search button is disabled while isSearching or when the term trims to nothing
SearchEnabled == ~lsIsSearching /\ ~TrimsToEmpty(lsSearchAddress)

\* handleSearch up to its await
handleSearch ==
  /\ SearchEnabled
  /\ lsQueries < MaxSearches
  /\ IF TrimsToEmpty(lsSearchAddress)
     THEN UNCHANGED <<lsIsSearching, lsHasSearched, lsPending, lsQueries>>
     ELSE /\ lsIsSearching' = TRUE
          /\ lsHasSearched' = TRUE
          /\ lsPending' = Some(lsSearchAddress)
          /\ lsQueries' = lsQueries + 1
  /\ UNCHANGED nonLocateVars
  /\ UNCHANGED <<lsStore, lsSearchAddress, lsReports>>

\* the lists of rows the query in flight can return
PendingResults ==
  IF lsPending = Null THEN {} ELSE TextSearchQuery(lsStore, lsPending[1])

\* the query returns its rows: setReports(reportData || []), setIsSearching(false)
searchResolves(reportData) ==
  /\ lsPending # Null
  /\ reportData \in PendingResults
  /\ lsReports' = reportData
  /\ lsIsSearching' = FALSE
  /\ lsPending' = Null
  /\ UNCHANGED nonLocateVars
  /\ UNCHANGED <<lsStore, lsSearchAddress, lsHasSearched, lsQueries>>

\* the query reports an error: the alert, setIsSearching(false)
searchRejects ==
  /\ lsPending # Null
  /\ lsIsSearching' = FALSE
  /\ lsPending' = Null
  /\ UNCHANGED nonLocateVars
  /\ UNCHANGED <<lsStore, lsSearchAddress, lsReports, lsHasSearched, lsQueries>>

LocateNext ==
  \/ \E value \in SearchTerms : setSearchAddress(value)
  \/ handleSearch
  \/ \E reportData \in PendingResults : searchResolves(reportData)
  \/ searchRejects

SpecLocate == LocateInit /\ [][LocateNext]_vars

(***************************************************************************)
(* Claims about the text search, checked under SpecLocate.                *)
(***************************************************************************)
\* text contains term as a substring, letters compared without case
ContainsIgnoringCase(text, term) ==
  \E p \in 0..(Len(text) - Len(term)) :
    \A i \in 1..Len(term) : Lower(text[p + i]) = Lower(term[i])

\* the stored reports whose location_string or address contains term
ReportsContaining(term) ==
  {row \in lsStore :
     \/ ContainsIgnoringCase(row.location_string, term)
     \/ (row.address # Null /\ ContainsIgnoringCase(row.address[1], term))}

\* C21: a search with a non-blank term t sets the results to exactly the
\* reports whose location_string or address contains t without regard to
\* case, newest first; a blank term issues no query and changes no result;
\* a failed query leaves the results and sets isSearching to false.
C21_SearchBySubstring ==
  /\ [][\A reportData \in PendingResults :
          searchResolves(reportData) =>
            /\ {lsReports'[i] : i \in 1..Len(lsReports')} = ReportsContaining(lsPending[1])
            /\ \A i, j \in 1..Len(lsReports') :
                 i < j => lsReports'[i].created_at >= lsReports'[j].created_at]_vars
  /\ [][(handleSearch /\ TrimsToEmpty(lsSearchAddress)) =>
          (lsQueries' = lsQueries /\ lsReports' = lsReports)]_vars
  /\ [][searchRejects => (lsReports' = lsReports /\ ~lsIsSearching')]_vars

(***************************************************************************)
(* The Citizen dashboard: loading the profile, editing it and saving it    *)
(* (components/citizen-dashboard.tsx), and the My Reports page opened from *)
(* it.                                                                     *)
(***************************************************************************)

MaxDashSteps == 3

\* a row of the profiles table (all its columns are NOT NULL)
DashRow ==
  [id |-> "userA", name |-> "Asha", age |-> 34, gender |-> "Female",
   profession |-> "Teacher", role |-> "Citizen"]

\* what the page may pass as the profile prop: nothing, the row, or an older copy of it
PropProfiles == {Null, Some(DashRow), Some([DashRow EXCEPT !.age = 33])}

\* texts of the name, gender and profession inputs
NameTexts == {"", "   ", "Asha R"}
GenderTexts == {"", "Female"}
ProfessionTexts == {"", "Teacher"}

\* texts an <input type="number"> can hold, as sequences of characters
AgeTexts ==
  { <<>>, <<"4", "0">>, <<"3", ".", "7">>, <<"0">>, <<"1", "5", "1">> }

DigitChars == <<"0", "1", "2", "3", "4", "5", "6", "7", "8", "9">>

IsDigit(c) == \E d \in 1..10 : DigitChars[d] = c

DigitValue(c) == (CHOOSE d \in 1..10 : DigitChars[d] = c) - 1

\* the digits at the start of a text, read as a decimal number
RECURSIVE LeadingDigits(_, _)
LeadingDigits(text, value) ==
  IF text = <<>> \/ ~IsDigit(Head(text))
  THEN value
  ELSE LeadingDigits(Tail(text), 10 * value + DigitValue(Head(text)))

\* parseInt(text): the integer its leading digits denote, Null for NaN
ParseInt(text) ==
  IF text = <<>> \/ ~IsDigit(Head(text)) THEN Null ELSE Some(LeadingDigits(text, 0))

\* n.toString() of a natural number
RECURSIVE NumberToString(_)
NumberToString(n) ==
  IF n < 10 THEN <<DigitChars[n + 1]>>
  ELSE NumberToString(n \div 10) \o <<DigitChars[(n % 10) + 1]>>

\* the edit form filled from a profile
FormOf(p) ==
  [name |-> p.name, age |-> NumberToString(p.age), gender |-> p.gender,
   profession |-> p.profession]

\* what saveChanges' validation answers: the error message, Null when the form passes
ValidationError(form) ==
  LET age == ParseInt(form.age) IN
    IF Trim(form.name) = "" THEN Some("Name is required")
    ELSE IF age = Null \/ age[1] < 1 \/ age[1] > 150
      THEN Some("Please enter a valid age between 1 and 150")
    ELSE IF Trim(form.gender) = "" THEN Some("Gender is required")
    ELSE IF Trim(form.profession) = "" THEN Some("Profession is required")
    ELSE Null

\* the fields saveChanges writes
UpdatedData(form) ==
  [name |-> Trim(form.name), age |-> ParseInt(form.age)[1],
   gender |-> Trim(form.gender), profession |-> Trim(form.profession)]

\* {...p, ...data}
Merge(p, data) ==
  [p EXCEPT !.name = data.name, !.age = data.age, !.gender = data.gender,
            !.profession = data.profession]

\* the render function reaches the dashboard markup
DashboardDisplayed == ~cdLoading /\ cdError = Null /\ cdProfile # Null

\* the render function returns the 'Failed to Load Profile' screen
FailedToLoadScreen == ~cdLoading /\ (cdError # Null \/ cdProfile = Null)

\* what sessionStorage holds under 'userProfile' when the dashboard mounts: nothing
\* (a new browser session) or the user's profile
SessionStorageAtMount ==
  {Null} \cup {Some([parses |-> TRUE, profile |-> Some(p)]) :
                 p \in {q \in ProfilesTable : q.id = DashRow.id}}

\* the state after the first render and the start of the effect: loading, session lookup
\* in flight; My Reports not opened yet
DashInit ==
  /\ cdProp \in PropProfiles
  /\ cdSession \in {Null, Some("userA")}
  /\ cdRow \in {Null, Some(DashRow)}
  /\ cdRuns = <<[prop |-> cdProp, pc |-> "getSession", ended |-> "none"]>>
  /\ cdProfile = Null
  /\ cdLoading = TRUE
  /\ cdError = Null
  /\ cdErrorFrom = "none"
  /\ cdDataSource = "loading"
  /\ cdIsEditing = FALSE
  /\ cdEditForm = [name |-> "", age |-> <<>>, gender |-> "", profession |-> ""]
  /\ cdIsUpdating = FALSE
  /\ cdSave = Null
  /\ cdSaveCalls = 0
  /\ cdLookups = 0
  /\ cdUpdates = 0
  /\ cdTimer = FALSE
  /\ cdSteps = 0
  /\ myImpl \in {"validated", "app"}
  /\ storedProfile \in SessionStorageAtMount
  /\ mySession = cdSession
  /\ myPc = "mount"
  /\ myReports = <<>>
  /\ myLoading = TRUE
  /\ myError = Null
  /\ myProfile = Null
  /\ validatedUser = Null
  /\ reportQueries = <<>>
  /\ myRedirect = Null
  /\ myRoute = "/"
  /\ SearchIdle
  /\ LocIdle
  /\ PageIdle
  /\ HomeIdle
  /\ AroundIdle
  /\ LatestIdle
  /\ FormatIdle
  /\ LocateIdle
  /\ SelectorIdle

\* mutant: without a prop the failure is swallowed
FallBackOrThrow_Silent(i, message) ==
  /\ IF cdRuns[i].prop # Null
     THEN /\ cdProfile' = cdRuns[i].prop
          /\ cdDataSource' = "props"
          /\ cdEditForm' = FormOf(cdRuns[i].prop[1])
          /\ cdRuns' = [cdRuns EXCEPT ![i].pc = "done", ![i].ended = "fallback"]
          /\ UNCHANGED <<cdError, cdErrorFrom>>
     ELSE /\ cdRuns' = [cdRuns EXCEPT ![i].pc = "done", ![i].ended = "failed"]
          /\ UNCHANGED <<cdError, cdErrorFrom, cdProfile, cdDataSource, cdEditForm>>
  /\ cdLoading' = FALSE

\* the four fallback branches of run i of fetchProfileFromSession: the prop of its
\* render when there is one, else the thrown message reaches the catch; the finally
\* clears loading
FallBackOrThrow(i, message) ==
  /\ IF cdRuns[i].prop # Null
     THEN /\ cdProfile' = cdRuns[i].prop
          /\ cdDataSource' = "props"
          /\ cdEditForm' = FormOf(cdRuns[i].prop[1])
          /\ cdRuns' = [cdRuns EXCEPT ![i].pc = "done", ![i].ended = "fallback"]
          /\ UNCHANGED <<cdError, cdErrorFrom>>
     ELSE /\ cdError' = Some(message)
          /\ cdErrorFrom' = "load"
          /\ cdRuns' = [cdRuns EXCEPT ![i].pc = "done", ![i].ended = "failed"]
          /\ UNCHANGED <<cdProfile, cdDataSource, cdEditForm>>
  /\ cdLoading' = FALSE

\* getSession of run i of fetchProfileFromSession answers
loadSessionResolves(i, sessionError) ==
  /\ cdRuns[i].pc = "getSession"
  /\ IF sessionError THEN FallBackOrThrow(i, "Session error")
     ELSE IF cdSession = Null THEN FallBackOrThrow(i, "No authenticated user found")
     ELSE /\ cdRuns' = [cdRuns EXCEPT ![i].pc = "profile"]
          /\ UNCHANGED <<cdProfile, cdDataSource, cdEditForm, cdError, cdErrorFrom,
                         cdLoading>>
  /\ UNCHANGED <<cdProp, cdSession, cdRow, cdIsEditing, cdIsUpdating, cdSave,
                 cdSaveCalls, cdLookups, cdUpdates, cdTimer, cdSteps>>
  /\ UNCHANGED nonDashVars

\* what .eq('id', session.user.id).single() can answer: an error, no data, or the row
ProfileFetchResults ==
  {[error |-> TRUE, data |-> Null], [error |-> FALSE, data |-> Null]}
    \cup (IF cdRow = Null THEN {} ELSE {[error |-> FALSE, data |-> cdRow]})

\* the profile query of run i of fetchProfileFromSession answers
loadProfileResolves(i, result) ==
  /\ cdRuns[i].pc = "profile"
  /\ IF result.error THEN FallBackOrThrow(i, "Profile fetch error")
     ELSE IF result.data = Null THEN FallBackOrThrow(i, "Profile not found")
     ELSE /\ cdProfile' = result.data
          /\ cdDataSource' = "session"
          /\ cdEditForm' = FormOf(result.data[1])
          /\ cdRuns' = [cdRuns EXCEPT ![i].pc = "done", ![i].ended = "row"]
          /\ cdLoading' = FALSE
          /\ UNCHANGED <<cdError, cdErrorFrom>>
  /\ UNCHANGED <<cdProp, cdSession, cdRow, cdIsEditing, cdIsUpdating, cdSave,
                 cdSaveCalls, cdLookups, cdUpdates, cdTimer, cdSteps>>
  /\ UNCHANGED nonDashVars

\* the home page passes a newly fetched profile object, one it has not passed before
\* (fetchProfile runs again on an auth event): the effect runs again, up to its first
\* await
propProfileChanges(newProfile) ==
  /\ cdProp # Null
  /\ \A i \in DOMAIN cdRuns : cdRuns[i].prop # newProfile
  /\ cdProp' = newProfile
  /\ cdLoading' = TRUE
  /\ cdError' = Null
  /\ cdRuns' = Append(cdRuns, [prop |-> newProfile, pc |-> "getSession", ended |-> "none"])
  /\ UNCHANGED <<cdSession, cdRow, cdProfile, cdErrorFrom, cdDataSource, cdIsEditing,
                 cdEditForm, cdIsUpdating, cdSave, cdSaveCalls, cdLookups, cdUpdates,
                 cdTimer, cdSteps>>
  /\ UNCHANGED nonDashVars

\* the Edit Profile button
startEditing ==
  /\ DashboardDisplayed
  /\ ~cdIsEditing
  /\ cdSteps < MaxDashSteps
  /\ cdSteps' = cdSteps + 1
  /\ cdEditForm' = FormOf(cdProfile[1])
  /\ cdIsEditing' = TRUE
  /\ UNCHANGED <<cdProp, cdSession, cdRow, cdRuns, cdProfile, cdLoading, cdError,
                 cdErrorFrom, cdDataSource, cdIsUpdating, cdSave, cdSaveCalls, cdLookups,
                 cdUpdates, cdTimer>>
  /\ UNCHANGED nonDashVars

\* typing into a field of the edit form
handleEditFormChange(field, value) ==
  /\ DashboardDisplayed
  /\ cdIsEditing
  /\ cdSteps < MaxDashSteps
  /\ cdEditForm[field] # value
  /\ cdSteps' = cdSteps + 1
  /\ cdEditForm' = [cdEditForm EXCEPT ![field] = value]
  /\ UNCHANGED <<cdProp, cdSession, cdRow, cdRuns, cdProfile, cdLoading, cdError,
                 cdErrorFrom, cdDataSource, cdIsEditing, cdIsUpdating, cdSave, cdSaveCalls,
                 cdLookups, cdUpdates, cdTimer>>
  /\ UNCHANGED nonDashVars

\* the Cancel button (disabled while updating)
cancelEditing ==
  /\ DashboardDisplayed
  /\ cdIsEditing
  /\ ~cdIsUpdating
  /\ cdSteps < MaxDashSteps
  /\ cdSteps' = cdSteps + 1
  /\ cdIsEditing' = FALSE
  /\ cdError' = Null
  /\ UNCHANGED <<cdProp, cdSession, cdRow, cdRuns, cdProfile, cdLoading,
                 cdErrorFrom, cdDataSource, cdEditForm, cdIsUpdating, cdSave, cdSaveCalls,
                 cdLookups, cdUpdates, cdTimer>>
  /\ UNCHANGED nonDashVars

\* the Save Changes button (disabled while updating): validation, then the session lookup
saveChanges ==
  /\ DashboardDisplayed
  /\ cdIsEditing
  /\ ~cdIsUpdating
  /\ cdSteps < MaxDashSteps
  /\ cdSteps' = cdSteps + 1
  /\ cdSaveCalls' = cdSaveCalls + 1
  /\ IF ValidationError(cdEditForm) # Null
     THEN /\ cdError' = ValidationError(cdEditForm)
          /\ cdErrorFrom' = "save"
          /\ UNCHANGED <<cdIsUpdating, cdSave, cdLookups>>
     ELSE /\ cdIsUpdating' = TRUE
          /\ cdError' = Null
          /\ cdSave' = Some([stage |-> "getSession", profile |-> cdProfile[1],
                             data |-> UpdatedData(cdEditForm),
                             dataSource |-> cdDataSource])
          /\ cdLookups' = cdLookups + 1
          /\ UNCHANGED cdErrorFrom
  /\ UNCHANGED <<cdProp, cdSession, cdRow, cdRuns, cdProfile, cdLoading,
                 cdDataSource, cdIsEditing, cdEditForm, cdUpdates, cdTimer>>
  /\ UNCHANGED nonDashVars

\* getSession of saveChanges answers
saveSessionResolves(sessionError) ==
  /\ cdSave # Null
  /\ cdSave[1].stage = "getSession"
  /\ IF sessionError \/ cdSession = Null
     THEN /\ IF cdSave[1].dataSource = "props"
             THEN /\ cdProfile' = Some(Merge(cdSave[1].profile, cdSave[1].data))
                  /\ cdIsEditing' = FALSE
                  /\ cdError' =
                       Some("Profile updated locally. Please sign in to save changes to your account.")
                  /\ cdTimer' = TRUE
             ELSE /\ cdError' = Some("No authenticated user. Please sign in to save changes.")
                  /\ UNCHANGED <<cdProfile, cdIsEditing, cdTimer>>
          /\ cdErrorFrom' = "save"
          /\ cdIsUpdating' = FALSE
          /\ cdSave' = Null
          /\ UNCHANGED cdUpdates
     ELSE /\ cdSave' = Some([cdSave[1] EXCEPT !.stage = "update"])
          /\ cdUpdates' = cdUpdates + 1
          /\ UNCHANGED <<cdProfile, cdIsEditing, cdError, cdErrorFrom, cdTimer,
                         cdIsUpdating>>
  /\ UNCHANGED <<cdProp, cdSession, cdRow, cdRuns, cdLoading, cdDataSource,
                 cdEditForm, cdSaveCalls, cdLookups, cdSteps>>
  /\ UNCHANGED nonDashVars

\* the update ... .eq('id', session.user.id).select().single() answers: the updated row,
\* or an error (always an error when no row has that id)
saveUpdateResolves(updateError) ==
  /\ cdSave # Null
  /\ cdSave[1].stage = "update"
  /\ IF updateError \/ cdRow = Null
     THEN /\ cdError' = Some("Update error")
          /\ cdErrorFrom' = "save"
          /\ UNCHANGED <<cdRow, cdProfile, cdDataSource, cdIsEditing>>
     ELSE /\ cdRow' = Some(Merge(cdRow[1], cdSave[1].data))
          /\ cdProfile' = cdRow'
          /\ cdDataSource' = "session"
          /\ cdIsEditing' = FALSE
          /\ UNCHANGED <<cdError, cdErrorFrom>>
  /\ cdIsUpdating' = FALSE
  /\ cdSave' = Null
  /\ UNCHANGED <<cdProp, cdSession, cdRuns, cdLoading, cdEditForm, cdSaveCalls,
                 cdLookups, cdUpdates, cdTimer, cdSteps>>
  /\ UNCHANGED nonDashVars

\* setTimeout(() => setError(null), 5000) fires
clearErrorTimerFires ==
  /\ cdTimer
  /\ cdTimer' = FALSE
  /\ cdError' = Null
  /\ UNCHANGED <<cdProp, cdSession, cdRow, cdRuns, cdProfile, cdLoading,
                 cdErrorFrom, cdDataSource, cdIsEditing, cdEditForm, cdIsUpdating, cdSave,
                 cdSaveCalls, cdLookups, cdUpdates, cdSteps>>
  /\ UNCHANGED nonDashVars

\* the My Reports button of the dashboard: router.push("/my-reports")
openMyReports ==
  /\ DashboardDisplayed
  /\ myRoute = "/"
  /\ myPc = "mount"
  /\ myRoute' = "/my-reports"
  /\ UNCHANGED cdVars
  /\ UNCHANGED <<myImpl, storedProfile, mySession, myPc, myReports, myLoading, myError,
                 myProfile, validatedUser, reportQueries, myRedirect>>
  /\ UNCHANGED <<searchVars, locVars, pageVars, homeVars, raVars, latestVars, fmtVars,
                 locateVars, selectorVars>>

\* the steps of the My Reports page once it is open
MyReportsSteps ==
  /\ myRoute = "/my-reports"
  /\ MyNext

\* the steps of the dashboard while the home page shows it (router.push unmounts it)
DashboardSteps ==
  /\ myRoute = "/"
  /\ myPc = "mount"
  /\ \/ \E i \in DOMAIN cdRuns, sessionError \in BOOLEAN :
          loadSessionResolves(i, sessionError)
     \/ \E i \in DOMAIN cdRuns, result \in ProfileFetchResults :
          loadProfileResolves(i, result)
     \/ \E newProfile \in PropProfiles \ {Null} : propProfileChanges(newProfile)
     \/ startEditing
     \/ \E value \in NameTexts : handleEditFormChange("name", value)
     \/ \E value \in AgeTexts : handleEditFormChange("age", value)
     \/ \E value \in GenderTexts : handleEditFormChange("gender", value)
     \/ \E value \in ProfessionTexts : handleEditFormChange("profession", value)
     \/ cancelEditing
     \/ saveChanges
     \/ \E sessionError \in BOOLEAN : saveSessionResolves(sessionError)
     \/ \E updateError \in BOOLEAN : saveUpdateResolves(updateError)
     \/ clearErrorTimerFires

DashNext ==
  \/ DashboardSteps
  \/ openMyReports
  \/ MyReportsSteps

SpecDashboard == DashInit /\ [][DashNext]_vars

\* the text is a whole number between 1 and 150
IsIntegerBetween1And150(text) ==
  /\ text # <<>>
  /\ \A k \in DOMAIN text : IsDigit(text[k])
  /\ LeadingDigits(text, 0) \in 1..150

\* a form the validation of saveChanges has to refuse
InvalidForm(form) ==
  \/ form.name = ""
  \/ ~IsIntegerBetween1And150(form.age)
  \/ form.gender = ""
  \/ form.profession = ""

\* C22: saveChanges with an empty name, an age that is not an integer between 1 and
\* 150, an empty gender or an empty profession sets an error, issues no session lookup
\* and no database update, and leaves profile, dataSource and isEditing unchanged.
C22_InvalidFormIsRefused ==
  [][(cdSaveCalls' = cdSaveCalls + 1 /\ InvalidForm(cdEditForm))
       => /\ cdError' # Null
          /\ cdLookups' = cdLookups
          /\ cdUpdates' = cdUpdates
          /\ UNCHANGED <<cdProfile, cdDataSource, cdIsEditing>>]_vars

\* run i of fetchProfileFromSession ends in this step
LoadCompletes(i) == cdRuns[i].pc # "done" /\ cdRuns'[i].pc = "done"

\* C23: when a profile load of the Citizen dashboard completes: if the session's
\* profile row was fetched, the displayed profile is that row and dataSource is
\* 'session'; if the session lookup or the profile fetch failed or returned nothing and
\* the load had a prop profile, the displayed profile is that prop profile, dataSource
\* is 'props' and the load sets no error; a load sets an error only when it had no prop
\* profile.  In every state with loading false and no error, profile is not null and
\* dataSource is 'session' or 'props'.
C23_ProfileLoadOutcome ==
  /\ []((~cdLoading /\ cdError = Null)
          => (cdProfile # Null /\ cdDataSource \in {"session", "props"}))
  /\ [][\A i \in DOMAIN cdRuns :
          LoadCompletes(i) =>
            /\ cdRuns'[i].ended = "row"
                 => (cdProfile' = cdRow /\ cdProfile' # Null /\ cdDataSource' = "session")
            /\ (cdRuns'[i].ended # "row" /\ cdRuns[i].prop # Null)
                 => /\ cdProfile' = cdRuns[i].prop
                    /\ cdDataSource' = "props"
                    /\ cdError' = cdError
                    /\ cdErrorFrom # "save" => cdError' = Null
            /\ cdError' # cdError => cdRuns[i].prop = Null]_vars

\* a load with a session whose profile fetch failed has fallen back to the prop profile
C23_Witness ==
  /\ cdSession # Null
  /\ cdRow # Null
  /\ \E i \in DOMAIN cdRuns :
       /\ cdRuns[i].ended = "fallback"
       /\ cdProfile = cdRuns[i].prop
  /\ cdDataSource = "props"
  /\ ~cdLoading
  /\ cdError = Null
  /\ cdSaveCalls = 0

\* C30: while a profile is loaded, an error raised by saveChanges does not replace the
\* dashboard with the 'Failed to Load Profile' screen: the render function still reaches
\* the dashboard markup, where the error is shown inline.
C30_SaveErrorShownInline ==
  (cdProfile # Null /\ cdError # Null /\ cdErrorFrom = "save") => ~FailedToLoadScreen

\* C28: once a signed-in Citizen has been shown the Citizen dashboard and has opened
\* My Reports from it, the page has found that user's profile under 'userProfile' in
\* sessionStorage: after its mount step its profile is that user's (so it goes on to
\* that user's reports, not to the missing-profile error or the redirect).
C28_MyReportsFindsCachedProfile ==
  (myPc # "mount" /\ cdSession = Some(DashRow.id) /\ DashRow.role = "Citizen")
    => (myProfile # Null /\ myProfile[1].id = DashRow.id)

(***************************************************************************)
(* LocationSelector: the map click listener, its reverse geocoding and the *)
(* callback into the incident page.                                        *)
(***************************************************************************)

MaxMapClicks == 3

\* the positions a click on the map can give
MapPositions == {[lat |-> l.lat, lng |-> l.lng] : l \in SelectableLocations}

PositionOf(location) == [lat |-> location.lat, lng |-> location.lng]

\* a text of digits padded with zeros on the left to six characters
RECURSIVE PadSix(_)
PadSix(digits) == IF Len(digits) >= 6 THEN digits ELSE PadSix(<<"0">> \o digits)

\* toFixed(6) of a coordinate held in millionths of a degree, as characters
ToFixed6(coordinate) ==
  NumberToString(coordinate \div 1000000) \o <<".">>
    \o PadSix(NumberToString(coordinate % 1000000))

\* what getAddressFromCoordinates resolves to, as a sequence of pieces of text: the first
\* result's formatted address when the status is OK, else the coordinates
GeocodedAddresses(position) ==
  { <<"MG Road, Bengaluru">>,
    ToFixed6(position.lat) \o <<", ">> \o ToFixed6(position.lng) }

\* what the listener passes to onLocationSelect: the position with the address, or the
\* position alone from the catch
CallbackLocations(position) ==
  {[lat |-> position.lat, lng |-> position.lng, address |-> Some(a)] :
     a \in GeocodedAddresses(position)}
    \cup {[lat |-> position.lat, lng |-> position.lng, address |-> Null]}

\* initMap ends: the map is created and the click listener added, or the catch is reached
initMap(loaded) ==
  /\ mapState = "loading"
  /\ mapState' = IF loaded THEN "ready" ELSE "failed"
  /\ UNCHANGED <<selectedMarker, selectorLocation, geocoding, mapClicks>>
  /\ UNCHANGED nonSelectorVars

\* the click listener up to its await: the red marker is replaced, the selector's state
\* set and the reverse geocoding of the clicked position requested
mapClick(clickedPosition) ==
  /\ mapState = "ready"
  /\ mapClicks < MaxMapClicks
  /\ mapClicks' = mapClicks + 1
  /\ selectedMarker' = Some(clickedPosition)
  /\ selectorLocation' = Some(clickedPosition)
  /\ geocoding' = geocoding \cup {[click |-> mapClicks + 1, position |-> clickedPosition]}
  /\ UNCHANGED mapState
  /\ UNCHANGED nonSelectorVars

\* the rest of the listener, once the geocoder has called back: onLocationSelect, which is
\* the page's handleLocationSelect
geocodeResolves(request, location) ==
  /\ request \in geocoding
  /\ geocoding' = geocoding \ {request}
  /\ handleLocationSelect(location)
  /\ UNCHANGED steps
  /\ UNCHANGED <<mapState, selectedMarker, selectorLocation, mapClicks>>
  /\ UNCHANGED <<searchVars, locVars, myVars, homeVars, raVars, latestVars, fmtVars,
                 locateVars, cdVars>>

SelectorNext ==
  \/ \E loaded \in BOOLEAN : initMap(loaded)
  \/ \E clickedPosition \in MapPositions : mapClick(clickedPosition)
  \/ \E request \in geocoding :
       \E location \in CallbackLocations(request.position) :
         geocodeResolves(request, location)

SpecSelector == SubmitInit /\ [][SelectorNext]_vars

\* C26: after the user has clicked two or more positions on the map, once every
\* reverse-geocoding callback has completed the page's selectedLocation is the position
\* clicked last, the same position as the selector's own selectedLocation and its red
\* marker, whatever the order in which the geocoding responses arrived.
C26_ParentHoldsLastClick ==
  (mapClicks >= 2 /\ geocoding = {})
    => /\ selectedLocation # Null
       /\ selectorLocation # Null
       /\ PositionOf(selectedLocation[1]) = selectorLocation[1]
       /\ selectedMarker = selectorLocation

====
